---- MODULE Spec2Model ----
(***************************************************************************)
(* Model of the chat turn of the UT chatbot backend: the POST              *)
(* /chats/{thread_id} handler (App/app.py), the per-user recency list it   *)
(* maintains (update_personal_history) and the LangGraph pipeline it       *)
(* invokes (ChatBot/LangGraph_workflow.py) with its checkpointed state.    *)
(*                                                                         *)
(* Strings are sequences of one-character strings.  The checkpoint table   *)
(* is append-only; the model keeps, per thread, the number of checkpoints  *)
(* written and the channel values of the newest one.                       *)
(***************************************************************************)
EXTENDS Integers, Sequences, FiniteSets, TLC

\* ------------------------------------------------------------------ bounds
MaxTurns == 2

\* ------------------------------------------------------- program constants
MAX_LENGTH == 256
HistoryCap == 20
TitleWords == 8
TopKSpecific == 5
TopKAll == 2

\* ------------------------------------------------------------- characters
WS == {" ", "\t", "\n"}
Letters == {"a","b","c","d","e","f","g","h","i","j","k","l","m",
            "n","o","p","q","r","s","t","u","v","w","x","y","z",
            "A","B","C","D","E","F","G","H","I","J","K","L","M",
            "N","O","P","Q","R","S","T","U","V","W","X","Y","Z"}
Digits == {"0","1","2","3","4","5","6","7","8","9"}
FirstChars == Letters \cup Digits \cup {"_"}
RestChars == FirstChars \cup {"@", "-"}

SetMin(S) == CHOOSE x \in S : \A y \in S : x <= y
SetMax(S) == CHOOSE x \in S : \A y \in S : y <= x

\* str.strip(): drop leading and trailing whitespace
Strip(s) ==
  LET idx == {i \in 1..Len(s) : s[i] \notin WS}
  IN IF idx = {} THEN <<>> ELSE SubSeq(s, SetMin(idx), SetMax(idx))

\* str.split(): the maximal runs of characters that are no whitespace
RECURSIVE SplitWords(_)
SplitWords(s) ==
  LET idx == {i \in 1..Len(s) : s[i] \notin WS}
  IN IF idx = {} THEN <<>>
     ELSE LET a == SetMin(idx)
              ends == {i \in a..Len(s) : s[i] \in WS}
              b == IF ends = {} THEN Len(s) + 1 ELSE SetMin(ends)
          IN <<SubSeq(s, a, b - 1)>> \o SplitWords(SubSeq(s, b, Len(s)))

\* str.split(" "): split on every single space, keeping empty pieces
RECURSIVE SplitOn(_, _)
SplitOn(s, c) ==
  LET idx == {i \in 1..Len(s) : s[i] = c}
  IN IF idx = {} THEN <<s>>
     ELSE LET k == SetMin(idx)
          IN <<SubSeq(s, 1, k - 1)>> \o SplitOn(SubSeq(s, k + 1, Len(s)), c)

\* " ".join(parts)
RECURSIVE JoinWith(_, _)
JoinWith(parts, c) ==
  IF parts = <<>> THEN <<>>
  ELSE IF Len(parts) = 1 THEN parts[1]
  ELSE parts[1] \o <<c>> \o JoinWith(Tail(parts), c)

FirstN(s, n) == SubSeq(s, 1, IF Len(s) < n THEN Len(s) ELSE n)
LastN(s, n) == SubSeq(s, IF Len(s) > n THEN Len(s) - n + 1 ELSE 1, Len(s))

\* " ".join(user_message.split(" ")[:8])
Title(user_message) == JoinWith(FirstN(SplitOn(user_message, " "), TitleWords), " ")

\* variant: the first character may be any character of the pattern
MatchesPatternAnyFirst(t) ==
  /\ Len(t) >= 1
  /\ \A i \in 1..Len(t) : t[i] \in RestChars

\* ThreadIDValidator.VALID_PATTERN.match
MatchesPattern(t) ==
  /\ Len(t) >= 1
  /\ t[1] \in FirstChars
  /\ \A i \in 2..Len(t) : t[i] \in RestChars

\* ThreadIDValidator.validate: the trimmed id, or a rejection
Validate(raw) ==
  IF raw = <<>> \/ Strip(raw) = <<>> THEN [ok |-> FALSE, id |-> <<>>]
  ELSE LET t == Strip(raw)
       IN IF Len(t) > MAX_LENGTH THEN [ok |-> FALSE, id |-> <<>>]
          ELSE IF ~MatchesPattern(t) THEN [ok |-> FALSE, id |-> <<>>]
          ELSE [ok |-> TRUE, id |-> t]

\* ------------------------------------------------------------ input sets
Users == {"u1", "u2"}

\* thread ids already in a full recency list: the 20 one-letter ids a..t
FullIds == <<"a","b","c","d","e","f","g","h","i","j",
             "k","l","m","n","o","p","q","r","s","t">>

\* raw thread ids a request may carry
RawThreadIds == { <<"a">>, <<" ", "u">>, <<>>, <<"-", "u">> }

ThreadIds == { Validate(r).id : r \in {x \in RawThreadIds : Validate(x).ok} }

\* user messages a request may carry
UserTexts == { <<"h", "i">>, <<" ">> }

\* ------------------------------------------------- capability services
ALL_CAMPUSES == << "UT_Arlington", "UT_Austin", "UT_Dallas", "UT_El_Paso",
                   "UT_Health_Houston", "UT_Health_San_Antonio",
                   "UT_Health_Science_Center_Tyler", "UT_MD_Anderson",
                   "UT_Medical_Branch_Galveston", "UT_Permian_Basin",
                   "UT_Rio_Grande_Valley", "UT_San_Antonio",
                   "UT_Southwestern", "UT_Tyler" >>

\* what school_model.invoke + ast.literal_eval can yield: an exception, because
\* the call failed or timed out ("error") or because the text of the reply is
\* not a literal ("malformed"), or the value the text was parsed to
SchoolReply(ok, reply, campuses) == [ok |-> ok, reply |-> reply, campuses |-> campuses]
SchoolReplies == { SchoolReply(FALSE, "error", <<>>),
                   SchoolReply(FALSE, "malformed", <<>>),
                   SchoolReply(TRUE, "list", <<>>),
                   SchoolReply(TRUE, "list", <<"All">>),
                   SchoolReply(TRUE, "list", <<"UT_Austin", "UT_Dallas">>) }

\* more of what the completion service may reply: a campus twice, a name that
\* is no campus, the sentinel beside a campus, and the text 'All', a str and
\* no list, which the loop over campuses takes character by character
WideReplies ==
  SchoolReplies \cup { SchoolReply(TRUE, "list", <<"UT_Austin", "UT_Austin">>),
                       SchoolReply(TRUE, "list", <<"Harvard">>),
                       SchoolReply(TRUE, "list", <<"All", "UT_Dallas">>),
                       SchoolReply(TRUE, "str", <<"A", "l", "l">>) }

\* what embeddings_model.embed_query can yield: an exception, no vector, a vector
EmbedReplies == { [ok |-> FALSE, vec |-> <<>>],
                  [ok |-> TRUE,  vec |-> <<>>],
                  [ok |-> TRUE,  vec |-> <<1, 2>>] }

\* what chat_model.invoke can yield: an exception or a reply
ChatReplies == { [ok |-> FALSE, text |-> <<>>],
                 [ok |-> TRUE,  text |-> <<"o", "k">>] }

\* the documents the vector index holds per campus, best match first
Doc(id, campus) ==
  [id |-> id, score |-> 1,
   metadata |-> [text |-> id, title |-> id, university |-> campus]]

Corpus(campus) ==
  IF campus = "UT_Austin" THEN << Doc("d1", campus), Doc("d2", campus), Doc("d3", campus) >>
  ELSE IF campus = "UT_Dallas" THEN << Doc("d4", campus) >>
  ELSE <<>>

\* index.query(vector, top_k, filter={"university": campus}).matches
IndexQuery(campus, top_k) == FirstN(Corpus(campus), top_k)

\* ------------------------------------------------------ graph state
\* State: a TypedDict(total=False); a key is present once a node has set it.
\* The messages channel has the add_messages reducer and defaults to [].
FreshState == [messages |-> <<>>]

StrContent(text) == [kind |-> "str", text |-> text, parts |-> <<>>]
PartsContent(parts) == [kind |-> "list", text |-> <<>>, parts |-> parts]

\* HumanMessage(content=user_message): no id yet (0)
HumanMessage(text) == [type |-> "human", content |-> StrContent(text), id |-> 0]

\* the completion service's reply: content is a list of text parts
AIMessage(text) ==
  [type |-> "ai", content |-> PartsContent(<< [type |-> "text", text |-> text] >>), id |-> 0]

\* variant: the new id repeats the newest id instead of being new
FreshIdReused(msgs) == SetMax({0} \cup {msgs[i].id : i \in 1..Len(msgs)})

FreshId(msgs) == 1 + SetMax({0} \cup {msgs[i].id : i \in 1..Len(msgs)})

\* variant: the channel has no reducer, an update overwrites the list
add_messages_overwrite(left, right) ==
  [i \in 1..Len(right) |-> [right[i] EXCEPT !.id = i]]

\* add_messages: a message whose id is already present replaces that
\* message in place; any other message is appended (with a new id if none)
RECURSIVE add_messages(_, _)
add_messages(left, right) ==
  IF right = <<>> THEN left
  ELSE LET m == IF right[1].id = 0
                THEN [right[1] EXCEPT !.id = FreshId(left)]
                ELSE right[1]
           idx == {i \in 1..Len(left) : left[i].id = m.id}
           merged == IF idx # {}
                     THEN [left EXCEPT ![SetMin(idx)] = m]
                     ELSE Append(left, m)
       IN add_messages(merged, Tail(right))

\* applying a node's update to the channels: messages through its reducer,
\* every other key overwritten
ApplyUpdate(values, upd) ==
  LET keys == (DOMAIN values \cup DOMAIN upd) \ {"messages"}
      plain == [k \in keys |-> IF k \in DOMAIN upd THEN upd[k] ELSE values[k]]
      msgs == IF "messages" \in DOMAIN upd
              THEN add_messages(values.messages, upd.messages)
              ELSE values.messages
  IN plain @@ [messages |-> msgs]

\* variant: the edges out of checking_query and specific_school are swapped
EdgeSwapped(node) ==
  CASE node = "START"             -> "checking_query"
    [] node = "checking_query"    -> "vectorize_query"
    [] node = "vectorize_query"   -> "specific_school"
    [] node = "specific_school"   -> "retrive_documents"
    [] node = "retrive_documents" -> "prepare_docs"
    [] node = "prepare_docs"      -> "chatbot"
    [] node = "chatbot"           -> "END"

\* the graph's edges: START -> checking_query -> ... -> chatbot -> END
Edge(node) ==
  CASE node = "START"             -> "checking_query"
    [] node = "checking_query"    -> "specific_school"
    [] node = "specific_school"   -> "vectorize_query"
    [] node = "vectorize_query"   -> "retrive_documents"
    [] node = "retrive_documents" -> "prepare_docs"
    [] node = "prepare_docs"      -> "chatbot"
    [] node = "chatbot"           -> "END"

\* variant: a return value that is not a dict counts as an empty update
AfterNodeSkip(node, ret) ==
  CASE node = "checking_query"    -> "specific_school"
    [] node = "specific_school"   -> "vectorize_query"
    [] node = "vectorize_query"   -> "retrive_documents"
    [] node = "retrive_documents" -> "prepare_docs"
    [] node = "prepare_docs"      -> "chatbot"
    [] node = "chatbot"           -> "END"

\* A node's return value is a dict update ("dict"), a SystemError object
\* returned in place of one ("SystemError"), or the node raised ("raise").
\* Only a dict is a valid update: anything else makes invoke raise, which
\* ends the run; chat_with_model turns that into a DatabaseError.
AfterNode(node, ret) ==
  IF ret = "dict" THEN Edge(node) ELSE "aborted"

\* ------------------------------------------------------ recency list
NewEntry(thread_id, user_message, t_created, t_updated) ==
  [thread_id |-> thread_id, title |-> Title(user_message),
   created_at |-> t_created, updated_at |-> t_updated]

RemoveAt(s, i) == SubSeq(s, 1, i - 1) \o SubSeq(s, i + 1, Len(s))

\* variant: the slice keeps the first twenty entries, [:20]
TruncateFront(ph) == IF Len(ph) > HistoryCap THEN FirstN(ph, HistoryCap) ELSE ph

\* if len(personal_history) > 20: personal_history = personal_history[-20:]
Truncate(ph) == IF Len(ph) > HistoryCap THEN LastN(ph, HistoryCap) ELSE ph

\* variant: the entry is stamped where it is, without pop and append
MoveToEndInPlace(ph, thread_id, t_updated) ==
  LET i == SetMin({j \in 1..Len(ph) : ph[j].thread_id = thread_id})
  IN [ph EXCEPT ![i].updated_at = t_updated]

\* the first entry with this thread_id is popped, stamped and appended
MoveToEnd(ph, thread_id, t_updated) ==
  LET i == SetMin({j \in 1..Len(ph) : ph[j].thread_id = thread_id})
  IN RemoveAt(ph, i) \o << [ph[i] EXCEPT !.updated_at = t_updated] >>

\* variant: a new entry is appended without looking for the thread in the list
TouchListAlwaysAppend(ph, thread_id, user_message, t_created, t_updated) ==
  Truncate(Append(ph, NewEntry(thread_id, user_message, t_created, t_updated)))

\* variant: a thread that is not in the list yet is not added
TouchListKnownOnly(ph, thread_id, user_message, t_created, t_updated) ==
  LET already_there == \E j \in 1..Len(ph) : ph[j].thread_id = thread_id
  IN IF already_there
     THEN LET i == SetMin({j \in 1..Len(ph) : ph[j].thread_id = thread_id})
          IN SubSeq(ph, 1, i - 1) \o SubSeq(ph, i + 1, Len(ph))
               \o << [ph[i] EXCEPT !.updated_at = t_updated] >>
     ELSE ph

\* update_personal_history, the branch for a user who already has an item
TouchList(ph, thread_id, user_message, t_created, t_updated) ==
  LET already_there == \E j \in 1..Len(ph) : ph[j].thread_id = thread_id
  IN Truncate(IF already_there
              THEN MoveToEnd(ph, thread_id, t_updated)
              ELSE Append(ph, NewEntry(thread_id, user_message, t_created, t_updated)))

NoItem == [present |-> FALSE, personal_history |-> <<>>]

\* a full list: twenty entries a..t, touched at times 1..20
FullItem ==
  [present |-> TRUE,
   personal_history |->
     [i \in 1..HistoryCap |->
        [thread_id |-> <<FullIds[i]>>, title |-> <<"q">>,
         created_at |-> i, updated_at |-> i]]]

\* ========================================================== checkpoint codec
\* src/App/utils/serializers.py reads what the checkpointer wrote: msgpack bytes,
\* with langchain objects wrapped in extension values.  Bytes are 0..255; text is
\* a sequence of one-character strings, as everywhere in this module.

\* The printable ASCII characters, code 32 first ("grave" stands for the grave
\* accent, which a string here cannot hold).
Printable ==
  << " ", "!", "\"", "#", "$", "%", "&", "'", "(", ")", "*", "+", ",", "-", ".", "/",
     "0", "1", "2", "3", "4", "5", "6", "7", "8", "9", ":", ";", "<", "=", ">", "?",
     "@", "A", "B", "C", "D", "E", "F", "G", "H", "I", "J", "K", "L", "M", "N", "O",
     "P", "Q", "R", "S", "T", "U", "V", "W", "X", "Y", "Z", "[", "\\", "]", "^", "_",
     "grave", "a", "b", "c", "d", "e", "f", "g", "h", "i", "j", "k", "l", "m", "n", "o",
     "p", "q", "r", "s", "t", "u", "v", "w", "x", "y", "z", "{", "|", "}", "~" >>

Ord(c) == 31 + CHOOSE i \in 1..Len(Printable) : Printable[i] = c
Chr(b) == Printable[b - 31]
IsAscii(b) == b >= 32 /\ b <= 126
Encode(s) == [i \in 1..Len(s) |-> Ord(s[i])]
Decode(bs) == [i \in 1..Len(bs) |-> Chr(bs[i])]

\* A decoded value.  One record shape for every kind, so that two values can always
\* be compared: t is the kind, n the number of an int or a bool, the seconds of a
\* Timestamp or the code of an ExtType, s the text of a str, b the bytes of a bytes
\* or an ExtType (the nanoseconds of a Timestamp), kids the elements of a list or k1, v1, k2, v2, .. of a dict.
\* Before it is packed a value may also be an "obj", a langchain object whose kids
\* are its module, class, properties and constructor method.
V(t, n, s, b, kids) == [t |-> t, n |-> n, s |-> s, b |-> b, kids |-> kids]
None == V("nil", 0, <<>>, <<>>, <<>>)
Bool(x) == V("bool", IF x THEN 1 ELSE 0, <<>>, <<>>, <<>>)
Num(n) == V("int", n, <<>>, <<>>, <<>>)
Str(s) == V("str", 0, s, <<>>, <<>>)
Bytes(b) == V("bin", 0, <<>>, b, <<>>)
List(items) == V("arr", 0, <<>>, <<>>, items)
Dict(kvs) == V("map", 0, <<>>, <<>>, kvs)
ExtType(code, data) == V("ext", code, <<>>, data, <<>>)
Obj(kids) == V("obj", 0, <<>>, <<>>, kids)
Timestamp(seconds, nanoseconds) == V("ts", seconds, <<>>, <<nanoseconds>>, <<>>)

\* Python's hash(): a dict key must be hashable, and lists and dicts are not.
Hashable(v) == v.t \notin {"arr", "map"}
\* Python's == between dict keys: True == 1 and False == 0.
PyEq(a, c) ==
  IF a.t \in {"bool", "int"} /\ c.t \in {"bool", "int"} THEN a.n = c.n ELSE a = c

\* dict[key] = value on the dict whose items are kvs: a key already there keeps
\* its place and takes the new value.
RECURSIVE DictSet(_, _, _)
DictSet(kvs, key, value) ==
  IF kvs = <<>> THEN <<key, value>>
  ELSE IF PyEq(kvs[1], key) THEN <<kvs[1], value>> \o SubSeq(kvs, 3, Len(kvs))
  ELSE <<kvs[1], kvs[2]>> \o DictSet(SubSeq(kvs, 3, Len(kvs)), key, value)

\* dict.get(key, default)
RECURSIVE GetItems(_, _, _)
GetItems(kvs, key, default) ==
  IF kvs = <<>> THEN default
  ELSE IF PyEq(kvs[1], key) THEN kvs[2]
  ELSE GetItems(SubSeq(kvs, 3, Len(kvs)), key, default)
HasKey(d, key) == \E i \in 1..(Len(d.kids) \div 2) : PyEq(d.kids[2 * i - 1], key)

Take(bs, k) == SubSeq(bs, 1, k)
Drop(bs, k) == SubSeq(bs, k + 1, Len(bs))
BigEndian(bs) ==
  LET RECURSIVE be(_, _)
      be(i, acc) == IF i > Len(bs) THEN acc ELSE be(i + 1, acc * 256 + bs[i])
  IN be(1, 0)

\* What the checkpointer's serializer writes, for the values and the sizes the
\* inputs below need: nil, bool, int 0..127, str and list and dict shorter than 16
\* (str: 32), bytes and extension data shorter than 256.  An "obj" is a langchain
\* object: extension 5 around the packed list of its module, class, properties
\* and constructor method.
\* The extension code _decode_exttype unwraps.
WrappedCode == 5

FixExtLens == {1, 2, 4, 8, 16}
FixExtTag(len) == CASE len = 1 -> 212 [] len = 2 -> 213 [] len = 4 -> 214
                    [] len = 8 -> 215 [] len = 16 -> 216
PackExt(code, data) ==
  IF Len(data) \in FixExtLens
  THEN <<FixExtTag(Len(data)), code % 256>> \o data
  ELSE <<199, Len(data), code % 256>> \o data
RECURSIVE packb(_)
packb(v) ==
  LET RECURSIVE all(_)
      all(items) == IF items = <<>> THEN <<>> ELSE packb(Head(items)) \o all(Tail(items))
  IN CASE v.t = "nil" -> <<192>>
       [] v.t = "bool" -> <<194 + v.n>>
       [] v.t = "int" -> <<v.n>>
       [] v.t = "str" -> <<160 + Len(v.s)>> \o Encode(v.s)
       [] v.t = "bin" -> <<196, Len(v.b)>> \o v.b
       [] v.t = "arr" -> <<144 + Len(v.kids)>> \o all(v.kids)
       [] v.t = "map" -> <<128 + (Len(v.kids) \div 2)>> \o all(v.kids)
       [] v.t = "ext" -> PackExt(v.n, v.b)
       [] v.t = "obj" -> PackExt(WrappedCode, <<144 + Len(v.kids)>> \o all(v.kids))
       [] v.t = "ts" -> PackExt(-1, <<(v.n \div 16777216) % 256, (v.n \div 65536) % 256,
                                      (v.n \div 256) % 256, v.n % 256>>)

\* What one step of the unpacker gives: a value and the bytes after it, or the
\* error it raised: "incomplete" (ValueError, the input ended inside a value),
\* "extra" (ExtraData), "format" (FormatError), "type" (TypeError, an unhashable
\* dict key), "value" (ValueError or UnicodeDecodeError from a Timestamp or a str).
Done(val, rest) == [ok |-> TRUE, err |-> "", val |-> val, rest |-> rest]
Fail(err) == [ok |-> FALSE, err |-> err, val |-> None, rest |-> <<>>]

RECURSIVE Unpack(_), UnpackItems(_, _, _), UnpackPairs(_, _, _), unpackb(_), decode_exttype(_, _)

\* An extension value met by the unpacker.  msgpack decodes code -1 itself, as a
\* Timestamp (here: the 32-bit form; the 64- and 96-bit forms are not modelled and
\* no input has one), and hands every other code to ext_hook.
UnpackExt(tag, data, rest) ==
  LET code == IF tag >= 128 THEN tag - 256 ELSE tag
  IN IF code = -1
     THEN IF Len(data) = 4 THEN Done(Timestamp(BigEndian(data), 0), rest)
          ELSE IF Len(data) \in {8, 12} THEN Fail("unmodelled")
          ELSE Fail("value")
     ELSE Done(decode_exttype(code, data), rest)

\* raw=False: the bytes of a str are decoded as UTF-8 (here: printable ASCII is
\* text, a byte above 127 is an invalid sequence; no input has a control byte).
UnpackStr(bs, rest) ==
  IF \A i \in 1..Len(bs) : IsAscii(bs[i]) THEN Done(Str(Decode(bs)), rest)
  ELSE IF \E i \in 1..Len(bs) : bs[i] >= 128 THEN Fail("value")
  ELSE Fail("unmodelled")

\* One value off the front of bs.
Unpack(bs) ==
  IF bs = <<>> THEN Fail("incomplete")
  ELSE
    LET tag == bs[1]
        rest == Tail(bs)
        Data(hdr, len, F(_, _)) ==   \* len bytes after a header of hdr bytes
          IF Len(bs) < hdr + len THEN Fail("incomplete")
          ELSE F(SubSeq(bs, hdr + 1, hdr + len), Drop(bs, hdr + len))
        Ext(hdr, len) ==
          IF Len(bs) < hdr + len THEN Fail("incomplete")
          ELSE UnpackExt(bs[hdr], SubSeq(bs, hdr + 1, hdr + len), Drop(bs, hdr + len))
        AsBytes(data, after) == Done(Bytes(data), after)
    IN CASE tag <= 127 -> Done(Num(tag), rest)
         [] tag >= 128 /\ tag <= 143 -> UnpackPairs(rest, tag - 128, <<>>)
         [] tag >= 144 /\ tag <= 159 -> UnpackItems(rest, tag - 144, <<>>)
         [] tag >= 160 /\ tag <= 191 -> Data(1, tag - 160, UnpackStr)
         [] tag = 192 -> Done(None, rest)
         [] tag = 193 -> Fail("format")
         [] tag = 194 -> Done(Bool(FALSE), rest)
         [] tag = 195 -> Done(Bool(TRUE), rest)
         [] tag = 196 -> IF Len(bs) < 2 THEN Fail("incomplete")
                         ELSE Data(2, bs[2], AsBytes)
         [] tag = 199 -> IF Len(bs) < 3 THEN Fail("incomplete")
                         ELSE Ext(3, bs[2])
         [] tag \in 212..216 -> IF Len(bs) < 2 THEN Fail("incomplete")
                                ELSE Ext(2, CHOOSE len \in FixExtLens : FixExtTag(len) = tag)
         [] OTHER -> Fail("unmodelled")

\* The k elements of a list.
UnpackItems(bs, k, acc) ==
  IF k = 0 THEN Done(List(acc), bs)
  ELSE LET r == Unpack(bs)
       IN IF ~r.ok THEN r ELSE UnpackItems(r.rest, k - 1, Append(acc, r.val))

\* The k items of a dict (strict_map_key=False: any hashable key).
UnpackPairs(bs, k, acc) ==
  IF k = 0 THEN Done(Dict(acc), bs)
  ELSE LET key == Unpack(bs)
       IN IF ~key.ok THEN key
          ELSE LET val == Unpack(key.rest)
               IN IF ~val.ok THEN val
                  ELSE IF ~Hashable(key.val) THEN Fail("type")
                  ELSE UnpackPairs(val.rest, k - 1, DictSet(acc, key.val, val.val))

\* msgpack.unpackb(data, raw=False, ext_hook=_decode_exttype, strict_map_key=False)
unpackb(bs) ==
  LET r == Unpack(bs)
  IN IF r.ok /\ r.rest # <<>> THEN Fail("extra") ELSE r

\* _decode_exttype giving the whole unpacked list, never its properties
decode_exttype_whole(code, data) ==
  IF code = WrappedCode
  THEN LET unpacked == unpackb(data)
       IN IF ~unpacked.ok THEN Bytes(data) ELSE unpacked.val
  ELSE ExtType(code, data)

\* _decode_exttype giving None for a payload that does not decode
decode_exttype_none(code, data) ==
  IF code = WrappedCode
  THEN LET unpacked == unpackb(data)
       IN IF ~unpacked.ok THEN None
          ELSE IF unpacked.val.t = "arr" /\ Len(unpacked.val.kids) >= 3
          THEN LET properties == unpacked.val.kids[3]
               IN IF properties.t = "map" THEN properties ELSE unpacked.val
          ELSE unpacked.val
  ELSE ExtType(code, data)

\* _decode_exttype giving the bare bytes of an extension it does not know
decode_exttype_bytes(code, data) ==
  IF code = WrappedCode
  THEN LET unpacked == unpackb(data)
       IN IF ~unpacked.ok THEN Bytes(data)
          ELSE IF unpacked.val.t = "arr" /\ Len(unpacked.val.kids) >= 3
          THEN LET properties == unpacked.val.kids[3]
               IN IF properties.t = "map" THEN properties ELSE unpacked.val
          ELSE unpacked.val
  ELSE Bytes(data)

\* CheckpointSerializer._decode_exttype
decode_exttype(code, data) ==
  IF code = WrappedCode
  THEN LET unpacked == unpackb(data)
       IN IF ~unpacked.ok THEN Bytes(data)
          ELSE IF unpacked.val.t = "arr" /\ Len(unpacked.val.kids) >= 3
          THEN LET properties == unpacked.val.kids[3]
               IN IF properties.t = "map" THEN properties ELSE unpacked.val
          ELSE unpacked.val
  ELSE ExtType(code, data)

\* base64.b64decode(text): characters outside the alphabet are dropped; what is
\* left must fill whole groups of four once the "=" at the end are counted.
B64Alphabet == SubSeq(Printable, 34, 59) \o SubSeq(Printable, 66, 91)
                 \o SubSeq(Printable, 17, 26) \o <<"+", "/">>
B64Index(c) == (CHOOSE i \in 1..64 : B64Alphabet[i] = c) - 1
B64Chars == {B64Alphabet[i] : i \in 1..64}
B64Data(text) ==
  LET kept == SelectSeq(text, LAMBDA c : c \in B64Chars)
  IN [i \in 1..Len(kept) |-> B64Index(kept[i])]
\* Four 6-bit numbers are three bytes; two are one byte and three are two.
B64Bytes(d) ==
  LET count == (Len(d) \div 4) * 3 + (CASE Len(d) % 4 = 3 -> 2 [] Len(d) % 4 = 2 -> 1 [] OTHER -> 0)
      byte(j) ==
        LET g == 4 * ((j - 1) \div 3)
        IN CASE (j - 1) % 3 = 0 -> d[g + 1] * 4 + (d[g + 2] \div 16)
             [] (j - 1) % 3 = 1 -> (d[g + 2] % 16) * 16 + (d[g + 3] \div 4)
             [] OTHER -> (d[g + 3] % 4) * 64 + d[g + 4]
  IN [j \in 1..count |-> byte(j)]
b64decode(text) ==
  LET d == B64Data(text)
      pads == Cardinality({i \in 1..Len(text) : text[i] = "="})
      over == Len(d) % 4
  IN IF over = 1 \/ (over # 0 /\ over + pads < 4)
     THEN [ok |-> FALSE, bytes |-> <<>>]
     ELSE [ok |-> TRUE, bytes |-> B64Bytes(d)]

\* A checkpoint attribute as the table hands it over: kind is the Python type
\* ("Binary" is boto3's wrapper, "other" anything else), data its bytes, text the
\* characters of a str.
Blob(kind, data, text) == [kind |-> kind, data |-> data, text |-> text]

\* CheckpointSerializer._to_bytes
to_bytes(blob) ==
  CASE blob.kind = "Binary" -> [ok |-> TRUE, err |-> "", bytes |-> blob.data]
    [] blob.kind = "bytes" -> [ok |-> TRUE, err |-> "", bytes |-> blob.data]
    [] blob.kind = "str" ->
         LET d == b64decode(blob.text)
         IN IF d.ok THEN [ok |-> TRUE, err |-> "", bytes |-> d.bytes]
            ELSE [ok |-> FALSE, err |-> "Invalid base64 string", bytes |-> <<>>]
    [] OTHER -> [ok |-> FALSE, err |-> "Unsupported checkpoint type", bytes |-> <<>>]

\* What deserialize gives: the decoded checkpoint, or the DeserializationError it
\* raised: message is what tells one from another, original is whether
\* details carries an original_error.
Decoded(value) == [ok |-> TRUE, message |-> "", original |-> FALSE, value |-> value]
DeserializationError(message, original) ==
  [ok |-> FALSE, message |-> message, original |-> original, value |-> None]

\* deserialize without its test for no bytes
deserialize_unchecked(blob) ==
  LET raw_bytes == to_bytes(blob)
  IN IF ~raw_bytes.ok THEN DeserializationError(raw_bytes.err, raw_bytes.err = "Invalid base64 string")
     ELSE LET data == unpackb(raw_bytes.bytes)
          IN CASE data.ok -> Decoded(data.val)
               [] data.err = "extra" -> DeserializationError("Extra data in msgpack", TRUE)
               [] data.err = "format" -> DeserializationError("Invalid msgpack format", TRUE)
               [] OTHER -> DeserializationError("Unexpected error", TRUE)

\* CheckpointSerializer.deserialize
deserialize(blob) ==
  LET raw_bytes == to_bytes(blob)
  IN IF ~raw_bytes.ok THEN DeserializationError(raw_bytes.err, raw_bytes.err = "Invalid base64 string")
     ELSE IF Len(raw_bytes.bytes) = 0
     THEN DeserializationError("Checkpoint data is empty", FALSE)
     ELSE LET data == unpackb(raw_bytes.bytes)
          IN CASE data.ok -> Decoded(data.val)
               [] data.err = "extra" -> DeserializationError("Extra data in msgpack", TRUE)
               [] data.err = "format" -> DeserializationError("Invalid msgpack format", TRUE)
               [] OTHER -> DeserializationError("Unexpected error", TRUE)

\* ---------------------------------------------------------- message extraction
\* The keys the extraction looks up.
K_channel_values == Str(<<"c", "h", "a", "n", "n", "e", "l", "_", "v", "a", "l", "u", "e", "s">>)
K_values == Str(<<"v", "a", "l", "u", "e", "s">>)
K_messages == Str(<<"m", "e", "s", "s", "a", "g", "e", "s">>)
K_content == Str(<<"c", "o", "n", "t", "e", "n", "t">>)
K_type == Str(<<"t", "y", "p", "e">>)
K_text == Str(<<"t", "e", "x", "t">>)
K_id == Str(<<"i", "d">>)
K_name == Str(<<"n", "a", "m", "e">>)
S_unknown == Str(<<"u", "n", "k", "n", "o", "w", "n">>)

\* Python's bool(value), which "or" tests.
Truthy(v) ==
  CASE v.t = "nil" -> FALSE
    [] v.t \in {"bool", "int"} -> v.n # 0
    [] v.t = "str" -> v.s # <<>>
    [] v.t = "bin" -> v.b # <<>>
    [] v.t \in {"arr", "map"} -> v.kids # <<>>
    [] OTHER -> TRUE

\* Python's str(value), for the values a content that is no str has in the inputs
\* below: None, a bool, an int; the repr of any other kind is not modelled.
RECURSIVE Decimal(_)
Decimal(n) ==
  IF n < 10 THEN <<Printable[17 + n]>> ELSE Decimal(n \div 10) \o <<Printable[17 + (n % 10)]>>
PyStr(v) ==
  CASE v.t = "nil" -> <<"N", "o", "n", "e">>
    [] v.t = "bool" -> IF v.n = 1 THEN <<"T", "r", "u", "e">> ELSE <<"F", "a", "l", "s", "e">>
    [] v.t = "int" -> Decimal(v.n)
    [] v.t = "str" -> v.s
    [] OTHER -> <<"unmodelled">>

\* the text_parts loop taking every dict, whatever its type
RECURSIVE TextPartsAnyType(_)
TextPartsAnyType(items) ==
  IF items = <<>> THEN <<>>
  ELSE LET item == Head(items)
       IN IF item.t = "map"
          THEN <<GetItems(item.kids, K_text, Str(<<>>))>> \o TextPartsAnyType(Tail(items))
          ELSE TextPartsAnyType(Tail(items))

\* The text_parts loop of _parse_message: item.get("text", "") of every item of
\* content that is a dict with type "text".
RECURSIVE TextParts(_)
TextParts(items) ==
  IF items = <<>> THEN <<>>
  ELSE LET item == Head(items)
       IN IF item.t = "map" /\ PyEq(GetItems(item.kids, K_type, None), K_text)
          THEN <<GetItems(item.kids, K_text, Str(<<>>))>> \o TextParts(Tail(items))
          ELSE TextParts(Tail(items))

\* What _parse_message gives for one entry: kind is "none" (it returned None),
\* "raise" (" ".join met a part that is no str) or "ok" (the projection).
Projection(kind, role, content, id, name) ==
  [kind |-> kind, role |-> role, content |-> content, id |-> id, name |-> name]
NoProjection(kind) == Projection(kind, None, <<>>, None, None)

\* _parse_message
parse_message(msg) ==
  IF msg.t # "map" THEN NoProjection("none")
  ELSE
    LET content == GetItems(msg.kids, K_content, Str(<<>>))
        text_parts == TextParts(content.kids)
        joinable == \A i \in 1..Len(text_parts) : text_parts[i].t = "str"
        text == IF content.t = "arr"
                THEN JoinWith([i \in 1..Len(text_parts) |-> text_parts[i].s], " ")
                ELSE PyStr(content)
    IN IF content.t = "arr" /\ ~joinable THEN NoProjection("raise")
       ELSE Projection("ok", GetItems(msg.kids, K_type, S_unknown), text,
                       GetItems(msg.kids, K_id, None), GetItems(msg.kids, K_name, None))

\* the loop giving up at the first entry it cannot project
RECURSIVE ParseEachAbort(_)
ParseEachAbort(messages_raw) ==
  IF messages_raw = <<>> THEN <<>>
  ELSE LET parsed == parse_message(Head(messages_raw))
       IN IF parsed.kind = "ok" THEN <<parsed>> \o ParseEachAbort(Tail(messages_raw))
          ELSE <<>>

\* The loop of extract_messages: an entry that gave None or raised is left out
RECURSIVE ParseEach(_)
ParseEach(messages_raw) ==
  IF messages_raw = <<>> THEN <<>>
  ELSE LET parsed == parse_message(Head(messages_raw))
       IN IF parsed.kind = "ok" THEN <<parsed>> \o ParseEach(Tail(messages_raw))
          ELSE ParseEach(Tail(messages_raw))

\* What the messages_raw expression gives: the value and where it was found, or
\* the error raised.
Raise(error) == [ok |-> FALSE, error |-> error, from |-> "", value |-> None]
Found(from, value) == [ok |-> TRUE, error |-> "", from |-> from, value |-> value]

\* the messages_raw expression looking under "values" before "channel_values"
MessagesRawValuesFirst(checkpoint_data) ==
  IF checkpoint_data.t # "map" THEN Raise("AttributeError")
  ELSE
    LET channel_values == GetItems(checkpoint_data.kids, K_channel_values, Dict(<<>>))
        values == GetItems(checkpoint_data.kids, K_values, Dict(<<>>))
        first == GetItems(channel_values.kids, K_messages, None)
        second == GetItems(values.kids, K_messages, None)
        third == GetItems(checkpoint_data.kids, K_messages, None)
    IN IF values.t # "map" THEN Raise("AttributeError")
       ELSE IF Truthy(second) THEN Found("values", second)
       ELSE IF channel_values.t # "map" THEN Raise("AttributeError")
       ELSE IF Truthy(first) THEN Found("channel_values", first)
       ELSE IF Truthy(third) THEN Found("messages", third)
       ELSE Found("default", List(<<>>))

\* The messages_raw expression of extract_messages.  An "or" gives its left side
\* when that is truthy and only then leaves the right side alone; .get on a value
\* that is no dict is an AttributeError.
MessagesRaw(checkpoint_data) ==
  IF checkpoint_data.t # "map" THEN Raise("AttributeError")
  ELSE
    LET channel_values == GetItems(checkpoint_data.kids, K_channel_values, Dict(<<>>))
        values == GetItems(checkpoint_data.kids, K_values, Dict(<<>>))
        first == GetItems(channel_values.kids, K_messages, None)
        second == GetItems(values.kids, K_messages, None)
        third == GetItems(checkpoint_data.kids, K_messages, None)
    IN IF channel_values.t # "map" THEN Raise("AttributeError")
       ELSE IF Truthy(first) THEN Found("channel_values", first)
       ELSE IF values.t # "map" THEN Raise("AttributeError")
       ELSE IF Truthy(second) THEN Found("values", second)
       ELSE IF Truthy(third) THEN Found("messages", third)
       ELSE Found("default", List(<<>>))

\* extract_messages
extract_messages(checkpoint_data) ==
  LET messages_raw == MessagesRaw(checkpoint_data)
  IN IF ~messages_raw.ok THEN [ok |-> FALSE, error |-> messages_raw.error, messages |-> <<>>]
     ELSE IF messages_raw.value.t # "arr" THEN [ok |-> TRUE, error |-> "", messages |-> <<>>]
     ELSE [ok |-> TRUE, error |-> "", messages |-> ParseEach(messages_raw.value.kids)]

\* ---------------------------------------------------------- stored checkpoints
\* base64.b64encode, which a checkpoint kept as text went through.
b64encode(bs) ==
  LET at(i) == IF i <= Len(bs) THEN bs[i] ELSE 0
      char(j) ==
        LET g == 3 * ((j - 1) \div 4)
            six == CASE (j - 1) % 4 = 0 -> at(g + 1) \div 4
                     [] (j - 1) % 4 = 1 -> (at(g + 1) % 4) * 16 + (at(g + 2) \div 16)
                     [] (j - 1) % 4 = 2 -> (at(g + 2) % 16) * 4 + (at(g + 3) \div 64)
                     [] OTHER -> at(g + 3) % 64
        IN IF g + ((j - 1) % 4) > Len(bs) THEN "=" ELSE B64Alphabet[six + 1]
  IN [j \in 1..(4 * ((Len(bs) + 2) \div 3)) |-> char(j)]

\* The messages a stored checkpoint may hold, as properties of langchain objects.
T_human == Str(<<"h", "u", "m", "a", "n">>)
T_ai == Str(<<"a", "i">>)
T_image == Str(<<"i", "m", "a", "g", "e">>)
TextPart(text) == Dict(<<K_type, K_text, K_text, text>>)
Message(type, content, id) == Dict(<<K_type, type, K_content, content, K_id, Str(<<id>>)>>)
Wrapped(properties) == Obj(<<Str(<<"l", "c">>), Str(<<"M">>), properties, Str(<<"v">>)>>)

HumanProps == Message(T_human, Str(<<"h", "i">>), "1")
AiProps ==
  Message(T_ai, List(<<TextPart(Str(<<"a">>)), Dict(<<K_type, T_image>>), Str(<<"x">>),
                       TextPart(Str(<<"b">>))>>), "2")
NestedProps ==
  Dict(<<K_type, T_ai, K_content, List(<<Dict(<<K_type, K_text>>), TextPart(Str(<<"b">>))>>),
         K_id, Str(<<"3">>), K_name, Wrapped(Dict(<<K_text, Str(<<"n">>)>>))>>)
UnjoinableProps == Message(T_ai, List(<<TextPart(Num(1))>>), "4")
BareProps == Dict(<<K_content, Num(7)>>)
ImageProps == Message(T_ai, List(<<Dict(<<K_type, T_image>>), Num(1)>>), "5")

\* An extension 5 whose payload ends inside a list, one with another code, a
\* timestamp, and a timestamp of a length msgpack rejects.
Broken == ExtType(WrappedCode, <<147, 192>>)
Foreign == ExtType(1, <<7>>)
Stamp == ExtType(-1, <<0, 0, 0, 9>>)
BadStamp == ExtType(-1, <<1>>)

Entries ==
  { Wrapped(HumanProps), Wrapped(AiProps), Wrapped(NestedProps), UnjoinableProps,
    Wrapped(BareProps), Wrapped(ImageProps), Num(3), Broken, Foreign, Stamp, BadStamp,
    Obj(<<Str(<<"l", "c">>), Str(<<"M">>), Num(1)>>),
    Wrapped(Dict(<<K_id, Broken, K_name, Foreign>>)) }

\* The most messages one stored list has.
MaxMessages == 2
MessageLists == UNION { [1..k -> Entries] : k \in 0..MaxMessages }

\* What a location may hold besides the list under test: nothing, None, an empty
\* list, a value that is no list, a list of one message that names the location.
Absent == V("absent", 0, <<>>, <<>>, <<>>)
Marker(id) == List(<<Message(T_human, Str(<<"h", "i">>), id)>>)
Holdings(id) == {Absent, None, List(<<>>), Str(<<"x">>), Marker(id)}
Item(key, value) == IF value = Absent THEN <<>> ELSE <<key, value>>
Checkpoint(first, second, third) ==
  Dict(Item(K_channel_values, IF first = Absent THEN Absent ELSE Dict(<<K_messages, first>>))
       \o Item(K_values, IF second = Absent THEN Absent ELSE Dict(<<K_messages, second>>))
       \o Item(K_messages, third))

Checkpoints ==
  { Checkpoint(List(l), Absent, Absent) : l \in MessageLists }
    \cup { Checkpoint(a, b, c) : a \in Holdings("f"), b \in Holdings("s"), c \in Holdings("t") }
    \cup { Dict(<<K_channel_values, v>> \o Item(K_messages, c)) :
             v \in {None, List(<<>>), Dict(<<>>)}, c \in {Absent, Marker("t")} }
    \cup { Dict(<<K_values, v>> \o Item(K_messages, c)) :
             v \in {None, Num(1)}, c \in {Absent, Marker("t")} }
    \cup { Marker("t"), None,
           Dict(<<Wrapped(HumanProps), Num(1)>>), Dict(<<Broken, Num(1), Foreign, Num(2)>>) }

\* What became of the bytes between the write and the read.
Damages == {"none", "truncated", "extra", "format", "empty", "unpadded"}
Damaged(bs, damage) ==
  CASE damage = "truncated" -> Take(bs, Len(bs) - 1)
    [] damage = "extra" -> bs \o <<192>>
    [] damage = "format" -> <<193>> \o bs
    [] damage = "empty" -> <<>>
    [] OTHER -> bs
Unpadded(text) == SelectSeq(text, LAMBDA c : c # "=")

\* The checkpoint attribute of a stored item, as the read finds it.
Kinds == {"bytes", "Binary", "str", "other"}
AsBlob(tree, damage, kind) ==
  LET bs == Damaged(packb(tree), damage)
  IN CASE kind = "str" ->
            Blob(kind, <<>>, IF damage = "unpadded" THEN Unpadded(b64encode(bs)) ELSE b64encode(bs))
       [] kind = "other" -> Blob(kind, <<>>, <<>>)
       [] OTHER -> Blob(kind, bs, <<>>)

Stored ==
  { [tree |-> t, damage |-> "none", kind |-> "Binary"] : t \in Checkpoints }
    \cup { [tree |-> t, damage |-> d, kind |-> k] :
             t \in { Checkpoint(List(<<Wrapped(HumanProps)>>), Absent, Absent),
                     Checkpoint(List(<<Foreign, Broken>>), Absent, Absent), Num(1) },
             d \in Damages, k \in Kinds }

\* ----------------------------------------------------------------- state
VARIABLES
  hist,     \* user-personal-history table: user -> item
  ckpt,     \* checkpoint table: thread -> [n: checkpoints written, values: newest channel values]
  now,      \* the clock datetime.utcnow() reads
  turns,    \* requests started so far
  pc,       \* where the request in flight is: "idle" when none is
  cur,      \* the request in flight or just finished: user, thread, text
  st,       \* the channel values of the run in flight
  ran,      \* the nodes run so far in this turn, in order
  calls,    \* the capability calls issued so far in this turn, in order
  failed,   \* a node of this turn did not return an update
  touched,  \* what update_personal_history did in this turn
  result,   \* what chat_with_model gave the caller
  hist0,    \* hist when this turn started
  ckpt0     \* ckpt when this turn started

\* the decoding of one stored checkpoint
VARIABLES
  stored,           \* what was written and how it reached the read: tree, damage, kind
  checkpoint_blob,  \* the checkpoint attribute of the newest item
  checkpoint_data,  \* what CheckpointSerializer.deserialize gave
  extracted,        \* what extract_messages gave
  reading           \* where the read is: "blob", "data", "messages" or "error"

readvars == <<stored, checkpoint_blob, checkpoint_data, extracted, reading>>

\* a second request, waiting while the first takes steps
VARIABLES parked

\* two requests of one user inside update_personal_history at a time
VARIABLES touching  \* request -> where it is, what it was given and the item it read

\* get_chat_history
VARIABLES
  shown,      \* the answer to the newest history read
  owner,      \* thread -> the user whose turn wrote its first checkpoint
  completed   \* the <<user, thread>> of the turns that gave an answer

sidevars == <<touching, shown, owner, completed>>
aside == <<readvars, parked, sidevars>>

turnvars == <<hist, ckpt, now, turns, pc, cur, st, ran, calls, failed, touched,
              result, hist0, ckpt0>>
vars == <<turnvars, readvars, parked, sidevars>>

NoCheckpoint == [n |-> 0, values |-> FreshState]
NoResult == [kind |-> "none", response |-> <<>>]
Failure(kind) == [kind |-> kind, response |-> <<>>]
NoUpdate == [k \in {} |-> 0]

NotDecoded == [ok |-> FALSE, message |-> "", original |-> FALSE, value |-> None]
NotExtracted == [ok |-> FALSE, error |-> "", messages |-> <<>>]

\* no request has been made yet
TurnIdle ==
  /\ ckpt = [t \in ThreadIds |-> NoCheckpoint]
  /\ now = HistoryCap
  /\ turns = 0
  /\ pc = "idle"
  /\ cur = [user |-> "u1", valid |-> FALSE, thread |-> <<>>, text |-> <<>>]
  /\ st = FreshState
  /\ ran = <<>>
  /\ calls = <<>>
  /\ failed = FALSE
  /\ touched = "no"
  /\ result = NoResult
  /\ hist0 = hist
  /\ ckpt0 = ckpt
  /\ parked = [pc |-> pc, cur |-> cur, st |-> st, ran |-> ran, calls |-> calls,
               failed |-> failed, touched |-> touched, result |-> result,
               hist0 |-> hist0, ckpt0 |-> ckpt0]

\* no checkpoint is being read
ReadIdle ==
  /\ stored = [tree |-> None, damage |-> "none", kind |-> "other"]
  /\ checkpoint_blob = Blob("other", <<>>, <<>>)
  /\ checkpoint_data = NotDecoded
  /\ extracted = NotExtracted
  /\ reading = "idle"

\* A request on its way through the head of chat_with_model: pc is "validate",
\* "get_item", "write", "done", "rejected" (InvalidThreadIDError) or "error"
\* (DatabaseError); item is what table.get_item gave it.
Procs == {"p1", "p2"}
Request(pc_, user, raw, user_message) ==
  [pc |-> pc_, user |-> user, raw |-> raw, thread_id |-> <<>>,
   user_message |-> user_message, item |-> NoItem]

\* what get_chat_history gave: kind is "none" (no read yet), "empty" (the
\* thread has no checkpoint), "NoAccessToThread", "DatabaseError" or "messages"
Shown(kind, user, thread_id, messages) ==
  [kind |-> kind, user |-> user, thread_id |-> thread_id, messages |-> messages]

\* no request is inside update_personal_history
NotTouching == touching = [p \in Procs |-> Request("idle", "u1", <<>>, <<>>)]

\* no history has been read and no thread has a checkpoint
NotShowing ==
  /\ shown = Shown("none", "u1", <<>>, <<>>)
  /\ owner = [t \in ThreadIds |-> "nobody"]
  /\ completed = {}

SideIdle == NotTouching /\ NotShowing

Init ==
  /\ hist \in { [u \in Users |-> NoItem],
                [u \in Users |-> IF u = "u1" THEN FullItem ELSE NoItem] }
  /\ TurnIdle
  /\ ReadIdle
  /\ SideIdle

\* ------------------------------------------------------- chat_with_model
\* a request arrives; ThreadIDValidator.validate accepts or rejects its id
StartTurn(user, raw, text) ==
  LET v == Validate(raw)
  IN /\ pc = "idle"
     /\ turns < MaxTurns
     /\ turns' = turns + 1
     /\ cur' = [user |-> user, valid |-> v.ok, thread |-> v.id, text |-> text]
     /\ pc' = IF v.ok THEN "touch" ELSE "idle"
     /\ result' = IF v.ok THEN NoResult ELSE Failure("InvalidThreadIDError")
     /\ st' = FreshState
     /\ ran' = <<>>
     /\ calls' = <<>>
     /\ failed' = FALSE
     /\ touched' = "no"
     /\ hist0' = hist
     /\ ckpt0' = ckpt
     /\ UNCHANGED <<hist, ckpt, now>>

\* variant: the failure is logged and the request goes on to the pipeline
TouchFailSwallowed ==
  /\ pc = "touch"
  /\ pc' = "invoke"
  /\ touched' = "error"
  /\ UNCHANGED <<hist, ckpt, now, turns, cur, st, ran, calls, failed, result, hist0, ckpt0>>

\* update_personal_history: the table read or write raises; the
\* DatabaseError it is wrapped in leaves chat_with_model unchanged
TouchFail ==
  /\ pc = "touch"
  /\ pc' = "idle"
  /\ touched' = "error"
  /\ result' = Failure("DatabaseError")
  /\ UNCHANGED <<hist, ckpt, now, turns, cur, st, ran, calls, failed, hist0, ckpt0>>

\* update_personal_history: the list is read, changed and written back.
\* Every utcnow() is a later reading of the clock than the one before it:
\* an entry that is moved is stamped with one reading, a new entry with
\* one for created_at and the next for updated_at.
TouchOk ==
  /\ pc = "touch"
  /\ LET item == hist[cur.user]
         ph == item.personal_history
         there == \E j \in 1..Len(ph) : ph[j].thread_id = cur.thread
     IN IF item.present
        THEN /\ hist' = [hist EXCEPT ![cur.user].personal_history =
                           TouchList(ph, cur.thread, cur.text,
                                     now + 1, IF there THEN now + 1 ELSE now + 2)]
             /\ now' = IF there THEN now + 1 ELSE now + 2
             /\ touched' = IF there THEN "moved"
                           ELSE IF Len(ph) >= HistoryCap THEN "evicted"
                           ELSE "appended"
        ELSE /\ hist' = [hist EXCEPT ![cur.user] =
                           [present |-> TRUE,
                            personal_history |->
                              << NewEntry(cur.thread, cur.text, now + 1, now + 2) >>]]
             /\ now' = now + 2
             /\ touched' = "created"
  /\ pc' = "invoke"
  /\ UNCHANGED <<ckpt, turns, cur, st, ran, calls, failed, result, hist0, ckpt0>>

\* ------------------------------------------------- langgraph_app.invoke
\* variant: every run is configured with one and the same thread
ConfigThreadFixed(thread_id) == <<"a">>

\* config = {"configurable": {"thread_id": thread_id}}: the key under which the
\* checkpointer reads and writes for this run
ConfigThread(thread_id) == thread_id

\* the checkpointer cannot be read or written: invoke raises before any
\* checkpoint of this run exists
InvokeFail ==
  /\ pc = "invoke"
  /\ pc' = "idle"
  /\ result' = Failure("DatabaseError")
  /\ UNCHANGED <<hist, ckpt, now, turns, cur, st, ran, calls, failed, touched, hist0, ckpt0>>

\* invoke loads the newest checkpoint of the thread, records the input
\* (one checkpoint) and applies it to the channels (a second checkpoint)
InvokeBegin ==
  /\ pc = "invoke"
  /\ st' = ApplyUpdate(ckpt[ConfigThread(cur.thread)].values,
                       [messages |-> << HumanMessage(cur.text) >>])
  /\ ckpt' = [ckpt EXCEPT ![ConfigThread(cur.thread)] = [n |-> @.n + 2, values |-> st']]
  /\ pc' = Edge("START")
  /\ UNCHANGED <<hist, now, turns, cur, ran, calls, failed, touched, result, hist0, ckpt0>>

\* one superstep: the node has run, issued newcalls and returned ret / upd.
\* A valid update is applied and checkpointed and the next node is
\* scheduled; otherwise invoke raises and chat_with_model reports a
\* DatabaseError, with no checkpoint for this step.
Superstep(node, ret, upd, newcalls) ==
  LET nxt == AfterNode(node, ret)
  IN /\ ran' = Append(ran, node)
     /\ calls' = calls \o newcalls
     /\ failed' = (failed \/ ret # "dict")
     /\ IF nxt = "aborted"
        THEN /\ pc' = "idle"
             /\ result' = Failure("DatabaseError")
             /\ UNCHANGED <<st, ckpt>>
        ELSE /\ pc' = IF nxt = "END" THEN "respond" ELSE nxt
             /\ st' = ApplyUpdate(st, upd)
             /\ ckpt' = [ckpt EXCEPT ![ConfigThread(cur.thread)] = [n |-> @.n + 1, values |-> st']]
             /\ UNCHANGED result
     /\ UNCHANGED <<hist, now, turns, cur, touched, hist0, ckpt0>>

\* a capability call; reply is what the scope classification was answered
Call(svc, campus, top_k) == [svc |-> svc, campus |-> campus, top_k |-> top_k, reply |-> ""]
Replied(call, reply) == [call EXCEPT !.reply = reply]

\* variant: the scan goes from the front and stops at the first HumanMessage
first_human_message(messages) ==
  LET humans == {i \in 1..Len(messages) : messages[i].type = "human"}
  IN IF humans = {} THEN 0 ELSE SetMin(humans)

\* for msg in reversed(messages): the place of the first HumanMessage met, 0
\* when there is none
last_human_message(messages) ==
  LET humans == {i \in 1..Len(messages) : messages[i].type = "human"}
  IN IF humans = {} THEN 0 ELSE SetMax(humans)

\* checking_query: the last HumanMessage, trimmed, becomes the query
checking_query ==
  /\ pc = "checking_query"
  /\ LET messages == st.messages
         k == last_human_message(messages)
         content == messages[k].content.text
     IN IF k = 0 \/ SplitWords(content) = <<>>
        THEN Superstep("checking_query", "SystemError", NoUpdate, <<>>)
        ELSE Superstep("checking_query", "dict", [query |-> Strip(content)], <<>>)

\* specific_school: the completion service names the campuses of the query;
\* replies is what it may answer
classify(replies) ==
  /\ pc = "specific_school"
  /\ IF "query" \notin DOMAIN st
     THEN Superstep("specific_school", "raise", NoUpdate, <<>>)
     ELSE \E r \in replies :
            LET c == << Replied(Call("complete", "", 0), r.reply) >>
            IN IF ~r.ok THEN Superstep("specific_school", "raise", NoUpdate, c)
               ELSE IF r.campuses = <<>>
               THEN Superstep("specific_school", "SystemError", NoUpdate, c)
               ELSE Superstep("specific_school", "dict", [campus_list |-> r.campuses], c)

specific_school == classify(SchoolReplies)

\* vectorize_query: the embedding service embeds the query
vectorize_query ==
  /\ pc = "vectorize_query"
  /\ \E r \in EmbedReplies :
       LET c == << Call("embed", "", 0) >>
       IN IF ~r.ok THEN Superstep("vectorize_query", "raise", NoUpdate, c)
          ELSE IF r.vec = <<>>
          THEN Superstep("vectorize_query", "SystemError", NoUpdate, c)
          ELSE Superstep("vectorize_query", "dict", [query_embedding |-> r.vec], c)

\* variant: every search asks for five documents
SearchPlanFive(campuses) ==
  IF campuses # <<"All">>
  THEN [i \in 1..Len(campuses) |-> Call("search", campuses[i], TopKSpecific)]
  ELSE [i \in 1..Len(ALL_CAMPUSES) |-> Call("search", ALL_CAMPUSES[i], TopKSpecific)]

\* the searches retrive_documents issues for a campus list
SearchPlan(campuses) ==
  IF campuses # <<"All">>
  THEN [i \in 1..Len(campuses) |-> Call("search", campuses[i], TopKSpecific)]
  ELSE [i \in 1..Len(ALL_CAMPUSES) |-> Call("search", ALL_CAMPUSES[i], TopKAll)]

RECURSIVE Matches(_)
Matches(plan) ==
  IF plan = <<>> THEN <<>>
  ELSE IndexQuery(plan[1].campus, plan[1].top_k) \o Matches(Tail(plan))

\* retrive_documents: one search per campus, in order; the first search
\* that raises ends the loop (failAt = 0: none raises)
retrive_documents ==
  /\ pc = "retrive_documents"
  /\ IF \/ "query_embedding" \notin DOMAIN st
        \/ "campus_list" \notin DOMAIN st
     THEN Superstep("retrive_documents", "SystemError", NoUpdate, <<>>)
     ELSE LET plan == SearchPlan(st.campus_list)
          IN \E failAt \in {0, 1, Len(plan)} :
               IF failAt = 0
               THEN Superstep("retrive_documents", "dict",
                              [retrieved_docs |-> Matches(plan)], plan)
               ELSE Superstep("retrive_documents", "SystemError", NoUpdate,
                              SubSeq(plan, 1, failAt))

\* prepare_docs: every retrieved document rendered into the context
prepare_docs ==
  /\ pc = "prepare_docs"
  /\ IF "retrieved_docs" \notin DOMAIN st
     THEN Superstep("prepare_docs", "raise", NoUpdate, <<>>)
     ELSE LET docs == st.retrieved_docs
              blocks == [i \in 1..Len(docs) |->
                           [title |-> docs[i].metadata.title,
                            university |-> docs[i].metadata.university,
                            content |-> docs[i].metadata.text]]
          IN Superstep("prepare_docs", "dict", [full_context_documents |-> blocks], <<>>)

\* chatbot_node: the completion service answers; its reply is appended
chatbot ==
  /\ pc = "chatbot"
  /\ IF "full_context_documents" \notin DOMAIN st
     THEN Superstep("chatbot", "raise", NoUpdate, <<>>)
     ELSE \E r \in ChatReplies :
            LET c == << Call("complete", "", 0) >>
            IN IF ~r.ok THEN Superstep("chatbot", "raise", NoUpdate, c)
               ELSE Superstep("chatbot", "dict", [messages |-> << AIMessage(r.text) >>], c)

\* the text of a message content: the text parts joined by spaces
ContentText(content) ==
  IF content.kind = "list"
  THEN JoinWith([i \in 1..Len(content.parts) |-> content.parts[i].text], " ")
  ELSE content.text

\* chat_with_model after invoke: the last message's text is the answer
Respond ==
  /\ pc = "respond"
  /\ pc' = "idle"
  /\ result' = [kind |-> "ok",
                response |-> IF st.messages = <<>> THEN <<"N", "o">>
                             ELSE ContentText(st.messages[Len(st.messages)].content)]
  /\ UNCHANGED <<hist, ckpt, now, turns, cur, st, ran, calls, failed, touched, hist0, ckpt0>>

Next ==
  \/ \E user \in Users, raw \in RawThreadIds, text \in UserTexts :
       StartTurn(user, raw, text) /\ UNCHANGED aside
  \/ TouchFail /\ UNCHANGED aside
  \/ TouchOk /\ UNCHANGED aside
  \/ InvokeFail /\ UNCHANGED aside
  \/ InvokeBegin /\ UNCHANGED aside
  \/ checking_query /\ UNCHANGED aside
  \/ specific_school /\ UNCHANGED aside
  \/ vectorize_query /\ UNCHANGED aside
  \/ retrive_documents /\ UNCHANGED aside
  \/ prepare_docs /\ UNCHANGED aside
  \/ chatbot /\ UNCHANGED aside
  \/ Respond /\ UNCHANGED aside

Spec == Init /\ [][Next]_vars

\* ==================================================== two requests at a time
\* chat_with_model is served for several callers at once.  Here two callers send
\* one request each, for different conversation ids.  The turn variables describe
\* the request that is taking steps; parked holds the other one, which waits
\* between two of its store or service operations.
Running ==
  [pc |-> pc, cur |-> cur, st |-> st, ran |-> ran, calls |-> calls, failed |-> failed,
   touched |-> touched, result |-> result, hist0 |-> hist0, ckpt0 |-> ckpt0]
InFlight(request) == request.pc # "idle"

\* the server turns from one request to the other
Switch ==
  /\ InFlight(Running) \/ InFlight(parked)
  /\ parked' = Running
  /\ pc' = parked.pc
  /\ cur' = parked.cur
  /\ st' = parked.st
  /\ ran' = parked.ran
  /\ calls' = parked.calls
  /\ failed' = parked.failed
  /\ touched' = parked.touched
  /\ result' = parked.result
  /\ hist0' = parked.hist0
  /\ ckpt0' = parked.ckpt0
  /\ UNCHANGED <<hist, ckpt, now, turns>>

\* a caller who has not sent a request yet sends one, for a conversation the
\* other caller's request in flight is not working on
StartBeside(user, raw, text) ==
  /\ result = NoResult
  /\ InFlight(parked) => Validate(raw).id # parked.cur.thread
  /\ StartTurn(user, raw, text)

ConcInit == Init

ConcNext ==
  \/ \E user \in Users, raw \in RawThreadIds, text \in UserTexts :
       StartBeside(user, raw, text) /\ UNCHANGED aside
  \/ Switch /\ UNCHANGED <<readvars, sidevars>>
  \/ TouchFail /\ UNCHANGED aside
  \/ TouchOk /\ UNCHANGED aside
  \/ InvokeFail /\ UNCHANGED aside
  \/ InvokeBegin /\ UNCHANGED aside
  \/ checking_query /\ UNCHANGED aside
  \/ specific_school /\ UNCHANGED aside
  \/ vectorize_query /\ UNCHANGED aside
  \/ retrive_documents /\ UNCHANGED aside
  \/ prepare_docs /\ UNCHANGED aside
  \/ chatbot /\ UNCHANGED aside
  \/ Respond /\ UNCHANGED aside

ConcSpec == ConcInit /\ [][ConcNext]_vars

\* ========================================================== reading a checkpoint
\* CheckpointSerializer.deserialize and extract_messages applied, one after the
\* other as get_chat_history applies them, to every stored checkpoint of Stored.
ReadInit ==
  /\ hist = [u \in Users |-> NoItem]
  /\ TurnIdle
  /\ SideIdle
  /\ stored \in Stored
  /\ checkpoint_blob = AsBlob(stored.tree, stored.damage, stored.kind)
  /\ checkpoint_data = NotDecoded
  /\ extracted = NotExtracted
  /\ reading = "blob"

\* checkpoint_data = CheckpointSerializer.deserialize(checkpoint_blob)
Deserialize ==
  /\ reading = "blob"
  /\ checkpoint_data' = deserialize(checkpoint_blob)
  /\ reading' = IF checkpoint_data'.ok THEN "data" ELSE "error"
  /\ UNCHANGED <<stored, checkpoint_blob, extracted>>
  /\ UNCHANGED <<turnvars, parked, sidevars>>

\* messages = extract_messages(checkpoint_data)
ExtractMessages ==
  /\ reading = "data"
  /\ extracted' = extract_messages(checkpoint_data.value)
  /\ reading' = IF extracted'.ok THEN "messages" ELSE "error"
  /\ UNCHANGED <<stored, checkpoint_blob, checkpoint_data>>
  /\ UNCHANGED <<turnvars, parked, sidevars>>

ReadNext == Deserialize \/ ExtractMessages

ReadSpec == ReadInit /\ [][ReadNext]_vars

\* ==================================================== one run of the pipeline
\* langgraph_app.invoke on a thread whose stored messages are any short
\* sequence of human and assistant messages (there need not be a human one),
\* with more of what the completion service may answer to specific_school.
Histories ==
  LET entries == { HumanMessage(<<"h", "i">>), HumanMessage(<<" ">>),
                   HumanMessage(<<" ", "q", "\n">>), AIMessage(<<"o", "k">>) }
  IN { [i \in 1..Len(m) |-> [m[i] EXCEPT !.id = i]] :
         m \in UNION { [1..k -> entries] : k \in 0..MaxMessages } }

PipeInit ==
  /\ hist = [u \in Users |-> NoItem]
  /\ now = HistoryCap
  /\ turns = 1
  /\ pc = Edge("START")
  /\ cur = [user |-> "u1", valid |-> TRUE, thread |-> <<"a">>, text |-> <<>>]
  /\ \E messages \in Histories : st = [messages |-> messages]
  /\ ckpt = [t \in ThreadIds |-> IF t = cur.thread THEN [n |-> 2, values |-> st] ELSE NoCheckpoint]
  /\ ran = <<>>
  /\ calls = <<>>
  /\ failed = FALSE
  /\ touched = "created"
  /\ result = NoResult
  /\ hist0 = hist
  /\ ckpt0 = [t \in ThreadIds |-> NoCheckpoint]
  /\ parked = [pc |-> "idle",
               cur |-> [user |-> "u1", valid |-> FALSE, thread |-> <<>>, text |-> <<>>],
               st |-> FreshState, ran |-> <<>>, calls |-> <<>>, failed |-> FALSE,
               touched |-> "no", result |-> NoResult, hist0 |-> hist, ckpt0 |-> ckpt0]
  /\ ReadIdle
  /\ SideIdle

PipeNext ==
  \/ checking_query /\ UNCHANGED aside
  \/ classify(WideReplies) /\ UNCHANGED aside
  \/ vectorize_query /\ UNCHANGED aside
  \/ retrive_documents /\ UNCHANGED aside
  \/ prepare_docs /\ UNCHANGED aside
  \/ chatbot /\ UNCHANGED aside
  \/ Respond /\ UNCHANGED aside

PipeSpec == PipeInit /\ [][PipeNext]_vars

\* ===================================================== turns and history reads
\* chat_with_model and get_chat_history, one request at a time.  A history read
\* answers from the newest checkpoint of the thread (what the decoding above
\* makes of it is left out here: the answer is the stored messages).

\* the channel values a thread has after one turn that gave an answer
AnsweredOnce ==
  LET docs == Matches(SearchPlan(<<"All">>))
  IN [messages |-> add_messages(add_messages(<<>>, << HumanMessage(<<"h", "i">>) >>),
                                << AIMessage(<<"o", "k">>) >>),
      query |-> <<"h", "i">>,
      campus_list |-> <<"All">>,
      query_embedding |-> <<1, 2>>,
      retrieved_docs |-> docs,
      full_context_documents |->
        [i \in 1..Len(docs) |-> [title |-> docs[i].metadata.title,
                                 university |-> docs[i].metadata.university,
                                 content |-> docs[i].metadata.text]]]

\* Nothing has happened yet; or u1 got an answer on thread a and then touched
\* nineteen more threads, so that a is the oldest entry of a full list.
AccessInit ==
  /\ \/ /\ hist = [u \in Users |-> NoItem]
        /\ ckpt = [t \in ThreadIds |-> NoCheckpoint]
        /\ owner = [t \in ThreadIds |-> "nobody"]
        /\ completed = {}
     \/ /\ hist = [u \in Users |-> IF u = "u1" THEN FullItem ELSE NoItem]
        /\ ckpt = [t \in ThreadIds |->
                     IF t = <<"a">> THEN [n |-> 8, values |-> AnsweredOnce] ELSE NoCheckpoint]
        /\ owner = [t \in ThreadIds |-> IF t = <<"a">> THEN "u1" ELSE "nobody"]
        /\ completed = { <<"u1", <<"a">>>> }
  /\ now = HistoryCap
  /\ turns = 0
  /\ pc = "idle"
  /\ cur = [user |-> "u1", valid |-> FALSE, thread |-> <<>>, text |-> <<>>]
  /\ st = FreshState
  /\ ran = <<>>
  /\ calls = <<>>
  /\ failed = FALSE
  /\ touched = "no"
  /\ result = NoResult
  /\ hist0 = hist
  /\ ckpt0 = ckpt
  /\ parked = [pc |-> pc, cur |-> cur, st |-> st, ran |-> ran, calls |-> calls,
               failed |-> failed, touched |-> touched, result |-> result,
               hist0 |-> hist0, ckpt0 |-> ckpt0]
  /\ shown = Shown("none", "u1", <<>>, <<>>)
  /\ ReadIdle
  /\ NotTouching

\* a turn request arrives: the answer to the history read before it is gone
BeginTurn(user, raw, text) ==
  /\ StartTurn(user, raw, text)
  /\ shown' = Shown("none", "u1", <<>>, <<>>)
  /\ UNCHANGED <<readvars, parked, touching, owner, completed>>

\* the run writes the first checkpoint the thread ever had
FirstCheckpoint ==
  /\ InvokeBegin
  /\ owner' = IF owner[cur.thread] = "nobody"
              THEN [owner EXCEPT ![cur.thread] = cur.user] ELSE owner
  /\ UNCHANGED <<readvars, parked, touching, shown, completed>>

\* the turn gives its answer
Answer ==
  /\ Respond
  /\ completed' = completed \cup { <<cur.user, cur.thread>> }
  /\ UNCHANGED <<readvars, parked, touching, shown, owner>>

\* get_chat_history: the id is validated; a thread with no checkpoint gives an
\* empty history to anyone; otherwise the thread has to be in the reader's
\* personal_history, and the answer is the messages of the newest checkpoint.
\* A table operation that raises gives a DatabaseError.
get_chat_history(user, raw) ==
  LET v == Validate(raw)
      personal_history == hist[user].personal_history
      owns_thread == \E j \in 1..Len(personal_history) :
                       personal_history[j].thread_id = v.id
  IN /\ pc = "idle"
     /\ \/ shown' = IF ~v.ok THEN Shown("InvalidThreadIDError", user, <<>>, <<>>)
                    ELSE IF ckpt[v.id].n = 0 THEN Shown("empty", user, v.id, <<>>)
                    ELSE IF ~hist[user].present \/ ~owns_thread
                    THEN Shown("NoAccessToThread", user, v.id, <<>>)
                    ELSE Shown("messages", user, v.id, ckpt[v.id].values.messages)
        \/ v.ok /\ shown' = Shown("DatabaseError", user, v.id, <<>>)
     /\ UNCHANGED <<turnvars, readvars, parked, touching, owner, completed>>

AccessNext ==
  \/ \E user \in Users, raw \in RawThreadIds, text \in UserTexts : BeginTurn(user, raw, text)
  \/ TouchFail /\ UNCHANGED aside
  \/ TouchOk /\ UNCHANGED aside
  \/ InvokeFail /\ UNCHANGED aside
  \/ FirstCheckpoint
  \/ checking_query /\ UNCHANGED aside
  \/ specific_school /\ UNCHANGED aside
  \/ vectorize_query /\ UNCHANGED aside
  \/ retrive_documents /\ UNCHANGED aside
  \/ prepare_docs /\ UNCHANGED aside
  \/ chatbot /\ UNCHANGED aside
  \/ Answer
  \/ \E user \in Users, raw \in RawThreadIds : get_chat_history(user, raw)

AccessSpec == AccessInit /\ [][AccessNext]_vars

\* ============================================ the head of chat_with_model
\* thread_id = ThreadIDValidator.validate(thread_id), then
\* update_personal_history(thread_id, user, user_message): table.get_item, the
\* change of the list that was read, and table.update_item or table.put_item.
\* Two requests of one user go through it, a step of one between any two steps
\* of the other; the table is the only thing they share.

\* The longest raw id built from IdChars.
MaxIdLen == 2
IdChars == {"a", "Z", "7", "_", "-", "@", " ", "!"}
Rep(c, n) == [i \in 1..n |-> c]
RawIds ==
  UNION { [1..k -> IdChars] : k \in 0..MaxIdLen }
    \cup { Rep("a", MAX_LENGTH), Rep("a", MAX_LENGTH + 1),
           <<" ">> \o Rep("a", MAX_LENGTH) \o <<"\n">>,
           Rep("a", MAX_LENGTH) \o <<"-">>,
           <<"\t", "a", "-", "@", "\n">>, <<"a", " ", "b">> }

\* n words a, b, c, .. with gap between one and the next
RECURSIVE Sentence(_, _)
Sentence(n, gap) ==
  IF n = 0 THEN <<>>
  ELSE IF n = 1 THEN <<FullIds[1]>>
  ELSE Sentence(n - 1, gap) \o gap \o <<FullIds[n]>>
Messages ==
  { Sentence(n, <<" ">>) : n \in {1, 2, TitleWords, TitleWords + 1, TitleWords + 2} }
    \cup { Sentence(n, <<" ", " ">>) : n \in {2, TitleWords + 1} }
    \cup { Sentence(2, <<"\t">>), Sentence(TitleWords + 1, <<"\n">>),
           <<" ">> \o Sentence(2, <<" ">>), Sentence(2, <<" ">>) \o <<" ">>, <<" ">>, <<>>,
           <<"h", "i">> }

\* the user's item when the two requests arrive: none, one with an empty
\* list, one with a single entry, a full one
EmptyItem == [present |-> TRUE, personal_history |-> <<>>]
OneItem ==
  [present |-> TRUE,
   personal_history |-> << [thread_id |-> <<"u">>, title |-> <<"q">>,
                            created_at |-> 1, updated_at |-> 1] >>]
TouchItems == {NoItem, EmptyItem, OneItem, FullItem}

TouchInit ==
  /\ hist \in { [u \in Users |-> IF u = "u1" THEN i ELSE NoItem] : i \in TouchItems }
  /\ TurnIdle
  /\ ReadIdle
  /\ NotShowing
  /\ \E raw \in RawIds, user_message \in Messages, other \in {<<"a">>, <<"u">>} :
       /\ raw = <<"a">> \/ user_message = <<"h", "i">>
       /\ touching = [p \in Procs |->
                        IF p = "p1" THEN Request("validate", "u1", raw, user_message)
                        ELSE Request("validate", "u1", other, <<"h", "i">>)]

\* thread_id = ThreadIDValidator.validate(thread_id)
Validating(p) ==
  LET v == Validate(touching[p].raw)
  IN /\ touching[p].pc = "validate"
     /\ touching' = [touching EXCEPT ![p].pc = IF v.ok THEN "get_item" ELSE "rejected",
                                     ![p].thread_id = v.id]
     /\ UNCHANGED <<turnvars, readvars, parked, shown, owner, completed>>

\* response = table.get_item(Key={"user_id": user})
GetItem(p) ==
  /\ touching[p].pc = "get_item"
  /\ touching' = [touching EXCEPT ![p].pc = "write", ![p].item = hist[touching[p].user]]
  /\ UNCHANGED <<turnvars, readvars, parked, shown, owner, completed>>

\* the list that was read is changed and written back with update_item, or a
\* new item is written with put_item, which replaces the item that is there
WriteItem(p) ==
  LET r == touching[p]
      ph == r.item.personal_history
      there == \E j \in 1..Len(ph) : ph[j].thread_id = r.thread_id
  IN /\ r.pc = "write"
     /\ IF r.item.present
        THEN /\ hist' = [hist EXCEPT ![r.user] =
                           [present |-> TRUE,
                            personal_history |->
                              TouchList(ph, r.thread_id, r.user_message,
                                        now + 1, IF there THEN now + 1 ELSE now + 2)]]
             /\ now' = IF there THEN now + 1 ELSE now + 2
        ELSE /\ hist' = [hist EXCEPT ![r.user] =
                           [present |-> TRUE,
                            personal_history |->
                              << NewEntry(r.thread_id, r.user_message, now + 1, now + 2) >>]]
             /\ now' = now + 2
     /\ touching' = [touching EXCEPT ![p].pc = "done"]
     /\ UNCHANGED <<ckpt, turns, pc, cur, st, ran, calls, failed, touched, result,
                    hist0, ckpt0>>
     /\ UNCHANGED <<readvars, parked, shown, owner, completed>>

\* the table read or the table write raises: DatabaseError
StoreFail(p) ==
  /\ touching[p].pc \in {"get_item", "write"}
  /\ touching' = [touching EXCEPT ![p].pc = "error"]
  /\ UNCHANGED <<turnvars, readvars, parked, shown, owner, completed>>

TouchNext ==
  \E p \in Procs : Validating(p) \/ GetItem(p) \/ WriteItem(p) \/ StoreFail(p)

TouchSpec == TouchInit /\ [][TouchNext]_vars

\* ========================================================== properties
IsPrefix(a, b) == Len(a) <= Len(b) /\ SubSeq(b, 1, Len(a)) = a

StoredMessages(table, t) == table[t].values.messages

\* a turn has run to its end: the handler has answered or raised
TurnDone == pc = "idle" /\ turns > 0

Performed == {"created", "appended", "moved", "evicted"}

Stages == {"checking_query", "specific_school", "vectorize_query",
           "retrive_documents", "prepare_docs", "chatbot"}

\* extract_query, classify_scope, vectorize, retrieve, assemble_context,
\* generate_answer under the names the graph gives them
StageOrder == << "checking_query", "specific_school", "vectorize_query",
                 "retrive_documents", "prepare_docs", "chatbot" >>

ThreadIdsOf(ph) == [i \in 1..Len(ph) |-> ph[i].thread_id]

\* C1: a turn with text that is non-empty after trimming grows the
\* conversation's stored messages by the human message and then the
\* assistant message when it succeeds, and by nothing or by the human
\* message alone when it fails.
C1_TurnAppends ==
  (TurnDone /\ Strip(cur.text) # <<>>) =>
    IF ~cur.valid THEN ckpt = ckpt0
    ELSE LET before == StoredMessages(ckpt0, cur.thread)
             after == StoredMessages(ckpt, cur.thread)
             n == Len(before)
         IN /\ IsPrefix(before, after)
            /\ Len(after) > n =>
                 /\ after[n + 1].type = "human"
                 /\ after[n + 1].content = StrContent(cur.text)
            /\ IF result.kind = "ok"
               THEN Len(after) = n + 2 /\ after[n + 2].type = "ai"
               ELSE Len(after) <= n + 1

\* a second successful turn on a thread that already holds a full exchange
C1_Witness ==
  /\ TurnDone /\ cur.valid /\ result.kind = "ok"
  /\ Len(StoredMessages(ckpt0, cur.thread)) = 2
  /\ Len(StoredMessages(ckpt, cur.thread)) = 4

\* C2: the step in which a stage fails writes a new checkpoint for the
\* conversation, carrying the partial state and the failure.
C2_FailureCheckpointed ==
  [][(~failed /\ failed') => ckpt'[cur.thread].n > ckpt[cur.thread].n]_vars

\* C3: once a stage of a turn has failed, nothing more happens in that
\* turn: no node runs, no capability call is issued, and neither the
\* channel values nor the checkpoints change until the next turn starts.
C3_NothingAfterFailure ==
  [][failed => \/ turns' # turns
               \/ /\ ran' = ran
                  /\ calls' = calls
                  /\ st' = st
                  /\ ckpt' = ckpt]_vars

\* a turn that failed in vectorize_query, after two capability calls
C3_Witness ==
  /\ failed /\ pc = "idle"
  /\ ran = << "checking_query", "specific_school", "vectorize_query" >>
  /\ Len(calls) = 2

\* C4: a turn rejected as an input error (invalid conversation id, or text
\* that is empty after trimming) leaves every conversation's stored
\* messages and every user's recency list as they were.
C4_InputErrorNoMutation ==
  (TurnDone /\ (~cur.valid \/ Strip(cur.text) = <<>>)) =>
    /\ hist = hist0
    /\ \A t \in ThreadIds : StoredMessages(ckpt, t) = StoredMessages(ckpt0, t)

IdsAfterTouch(ids, t) ==
  LET keep == {i \in 1..Len(ids) : ids[i] # t}
      RECURSIVE Rest(_)
      Rest(i) == IF i > Len(ids) THEN <<>>
                 ELSE (IF i \in keep THEN <<ids[i]>> ELSE <<>>) \o Rest(i + 1)
  IN LastN(Append(Rest(1), t), HistoryCap)

C6_TouchFailureNotPropagated ==
  (TurnDone /\ touched = "error") => (ran # <<>> /\ result.kind # "DatabaseError")

\* C6 amended: a failed recency update ends the turn: the caller gets a
\* DatabaseError, the pipeline is not run, no capability call is issued
\* and neither table changes.
C6_TouchFailureEndsTurn ==
  touched = "error" =>
    /\ pc = "idle"
    /\ result.kind = "DatabaseError"
    /\ ran = <<>> /\ calls = <<>>
    /\ ckpt = ckpt0 /\ hist = hist0

\* a recency update that failed in a second turn, after a successful one
C6_Witness ==
  /\ touched = "error" /\ turns = 2
  /\ \E t \in ThreadIds : Len(StoredMessages(ckpt, t)) = 2

\* C7: no recency list ever holds more than 20 entries, and a touch of a
\* thread that is not in a full list drops the front entry and nothing
\* else: the other 19 keep their order and the new entry is last.
C7_CapAndEviction ==
  [][/\ \A u \in Users : Len(hist'[u].personal_history) <= HistoryCap
     /\ LET ph == hist[cur.user].personal_history
            ph2 == hist'[cur.user].personal_history
        IN (/\ pc = "touch" /\ pc' = "invoke"
            /\ Len(ph) = HistoryCap
            /\ \A j \in 1..Len(ph) : ph[j].thread_id # cur.thread)
           => /\ Len(ph2) = HistoryCap
              /\ \A j \in 1..(HistoryCap - 1) : ph2[j] = ph[j + 1]
              /\ ph2[HistoryCap].thread_id = cur.thread]_vars

\* a touch has just evicted the front entry of a full list
C7_Witness ==
  /\ touched = "evicted"
  /\ Len(hist[cur.user].personal_history) = HistoryCap
  /\ hist[cur.user].personal_history[1] = hist0[cur.user].personal_history[2]

\* C8: a touch of a thread already in the list keeps the list's length,
\* puts that entry last and gives it an updated_at no smaller than before.
C8_TouchExisting ==
  [][LET ph == hist[cur.user].personal_history
         ph2 == hist'[cur.user].personal_history
         at == {j \in 1..Len(ph) : ph[j].thread_id = cur.thread}
     IN (pc = "touch" /\ pc' = "invoke" /\ at # {})
        => /\ Len(ph2) = Len(ph)
           /\ ph2[Len(ph2)].thread_id = cur.thread
           /\ ph2[Len(ph2)].updated_at >= ph[SetMin(at)].updated_at]_vars

\* the front entry of a list of several has just been touched
C8_Witness ==
  /\ touched = "moved"
  /\ Len(hist0[cur.user].personal_history) > 1
  /\ hist0[cur.user].personal_history[1].thread_id = cur.thread
  /\ hist[cur.user].personal_history[Len(hist[cur.user].personal_history)].thread_id = cur.thread

\* C9: within a turn the six stages run in the fixed order, each at most
\* once, and a stage is about to run only when all stages before it have
\* run and none has failed.
C9_StageOrder ==
  /\ Len(ran) <= Len(StageOrder)
  /\ ran = SubSeq(StageOrder, 1, Len(ran))
  /\ pc \in Stages => (~failed /\ Len(ran) < Len(StageOrder) /\ pc = StageOrder[Len(ran) + 1])
  /\ pc = "respond" => (~failed /\ ran = StageOrder)

\* all six stages have run
C9_Witness == pc = "respond" /\ ran = StageOrder /\ ~failed

\* C10: every step leaves the stored message sequence of every
\* conversation a prefix of what it is afterwards.
C10_AppendOnly ==
  [][\A t \in ThreadIds :
       IsPrefix(StoredMessages(ckpt, t), StoredMessages(ckpt', t))]_vars

\* a conversation that a later turn has extended
C10_Witness ==
  /\ turns = 2 /\ cur.valid
  /\ Len(StoredMessages(ckpt0, cur.thread)) >= 1
  /\ Len(StoredMessages(ckpt, cur.thread)) > Len(StoredMessages(ckpt0, cur.thread))

\* ------------------------------------------------- properties of the codec
\* every value inside v, v included
RECURSIVE Nodes(_)
Nodes(v) ==
  {v} \cup IF v.t \in {"arr", "map", "obj"}
           THEN UNION { Nodes(v.kids[i]) : i \in 1..Len(v.kids) }
           ELSE {}

\* What a written tree should read back as: a langchain object as its properties,
\* an extension 5 that is no such object (every one in Stored has a payload that
\* does not decode) as its payload bytes, anything else as itself.
RECURSIVE Plain(_)
Plain(v) ==
  LET kids == [i \in 1..Len(v.kids) |-> Plain(v.kids[i])]
  IN CASE v.t = "obj" -> IF Len(kids) >= 3 /\ kids[3].t = "map" THEN kids[3] ELSE List(kids)
       [] v.t = "arr" -> List(kids)
       [] v.t = "map" -> Dict(kids)
       [] v.t = "ext" /\ v.n = WrappedCode -> Bytes(v.b)
       [] OTHER -> v

\* the blob holds exactly the bytes that were written
Intact == stored.damage = "none" /\ stored.kind # "other"
Decoding == reading # "blob" /\ reading # "idle"
IsObject(v) == v.t = "obj" /\ Len(v.kids) >= 3 /\ Plain(v.kids[3]).t = "map"
IsBroken(v) == v.t = "ext" /\ v.n = WrappedCode
IsOtherExt(v) == v.t = "ext" /\ v.n # WrappedCode
IsPassedOn(v) == v.t = "ext" /\ v.n # WrappedCode /\ v.n # -1
HashableKeys(v) ==
  \A m \in Nodes(v) : m.t = "map" =>
    \A i \in 1..(Len(m.kids) \div 2) : Hashable(Plain(m.kids[2 * i - 1]))
Empty(blob) ==
  \/ blob.kind \in {"bytes", "Binary"} /\ blob.data = <<>>
  \/ blob.kind = "str" /\ \A i \in 1..Len(blob.text) : blob.text[i] \notin B64Chars

\* C13: decoding a blob of no bytes, whether bytes, a Binary or base64 text, always
\* ends in the error "Checkpoint data is empty", which carries no original error;
\* never in success, the malformed-framing errors or the unexpected error.
C13_EmptyIsEmpty ==
  (Decoding /\ Empty(checkpoint_blob)) =>
    /\ ~checkpoint_data.ok
    /\ checkpoint_data.message = "Checkpoint data is empty"
    /\ ~checkpoint_data.original
    /\ reading = "error"

C13_Witness ==
  /\ Decoding /\ Empty(checkpoint_blob) /\ checkpoint_blob.kind = "str"
  /\ checkpoint_data.message = "Checkpoint data is empty"

C15_BrokenPayloadKept ==
  (/\ Decoding /\ Intact /\ HashableKeys(stored.tree)
   /\ \E v \in Nodes(stored.tree) : IsBroken(v)
   /\ \A v \in Nodes(stored.tree) : v.t = "ext" => v.n # -1) =>
    /\ checkpoint_data.ok
    /\ checkpoint_data.value = Plain(stored.tree)
    /\ \A v \in Nodes(stored.tree) : IsBroken(v) => Bytes(v.b) \in Nodes(checkpoint_data.value)

\* a broken payload next to a good object, and one inside an object
C15_Witness ==
  /\ Decoding /\ Intact /\ checkpoint_data.ok
  /\ \E v, w \in Nodes(stored.tree) :
       /\ IsObject(v) /\ IsBroken(w) /\ w \notin Nodes(v)
       /\ Plain(v) \in Nodes(checkpoint_data.value)
       /\ Bytes(w.b) \in Nodes(checkpoint_data.value)
  /\ \E v, w \in Nodes(stored.tree) : IsObject(v) /\ IsBroken(w) /\ w \in Nodes(v)

Lookup(d, key) == IF d.t = "map" /\ HasKey(d, key) THEN GetItems(d.kids, key, Absent) ELSE Absent
Location(cp, i) ==
  CASE i = 1 -> Lookup(Lookup(cp, K_channel_values), K_messages)
    [] i = 2 -> Lookup(Lookup(cp, K_values), K_messages)
    [] OTHER -> Lookup(cp, K_messages)
Present(v) == v # Absent /\ v # None
Holds(v) == v # Absent /\ Truthy(v)
Extracting == reading = "messages"
Extracted == reading = "messages" \/ (reading = "error" /\ checkpoint_data.ok)
\* the messages extraction gives when it reads them from value
From(value) == IF value.t = "arr" THEN ParseEach(value.kids) ELSE <<>>

\* C17 as stated: the messages come from the first location that holds a value;
\* a later location counts only when every earlier one holds none.
C17_FirstPresentWins ==
  Extracting =>
    \A i \in 1..3 :
      (Present(Location(checkpoint_data.value, i))
         /\ \A j \in 1..(i - 1) : ~Present(Location(checkpoint_data.value, j)))
        => extracted.messages = From(Location(checkpoint_data.value, i))

\* C17, amended: the messages come from the first location whose value is truthy
\* (not None, not empty, not zero); a later location counts when every earlier one
\* holds nothing or a falsy value such as an empty list.
C17_FirstTruthyWins ==
  Extracting =>
    /\ \A i \in 1..3 :
         (Holds(Location(checkpoint_data.value, i))
            /\ \A j \in 1..(i - 1) : ~Holds(Location(checkpoint_data.value, j)))
           => extracted.messages = From(Location(checkpoint_data.value, i))
    /\ (\A i \in 1..3 : ~Holds(Location(checkpoint_data.value, i)))
         => extracted.messages = <<>>

\* the first location holds an empty list and the messages came from the second
C17_Witness ==
  /\ Extracting
  /\ Location(checkpoint_data.value, 1) = List(<<>>)
  /\ Holds(Location(checkpoint_data.value, 2))
  /\ Holds(Location(checkpoint_data.value, 3))
  /\ extracted.messages = From(Location(checkpoint_data.value, 2))
  /\ extracted.messages # From(Location(checkpoint_data.value, 3))

\* C18: on a decoded checkpoint (a dict) none of whose three locations holds a
\* list, extract_messages returns the empty list and raises no error.
C18_NoListNoError ==
  (/\ Extracted
   /\ checkpoint_data.value.t = "map"
   /\ \A i \in 1..3 : Location(checkpoint_data.value, i).t # "arr") =>
    extracted.ok /\ extracted.messages = <<>>

\* C19: each entry of the list is handled on its own: an entry that is no dict, or
\* whose projection raises, is left out without error, and every other entry is
\* there once, in the order of the list.
Projectable(entry) ==
  /\ entry.t = "map"
  /\ LET content == GetItems(entry.kids, K_content, Str(<<>>))
     IN content.t = "arr" =>
          \A i \in 1..Len(content.kids) :
            LET item == content.kids[i]
            IN (item.t = "map" /\ Lookup(item, K_type) = K_text /\ HasKey(item, K_text))
                 => Lookup(item, K_text).t = "str"
C19_EntriesIndependent ==
  (Extracting /\ Holds(Location(checkpoint_data.value, 1))
     /\ Location(checkpoint_data.value, 1).t = "arr") =>
    LET kept == SelectSeq(Location(checkpoint_data.value, 1).kids, Projectable)
    IN /\ extracted.ok
       /\ Len(extracted.messages) = Len(kept)
       /\ \A i \in 1..Len(kept) :
            /\ extracted.messages[i].kind = "ok"
            /\ extracted.messages[i].id = GetItems(kept[i].kids, K_id, None)
            /\ extracted.messages[i].role = GetItems(kept[i].kids, K_type, S_unknown)

\* an entry whose projection raised stands before one that was projected
C19_Witness ==
  /\ Extracting
  /\ LET entries == Location(checkpoint_data.value, 1)
     IN /\ entries.t = "arr" /\ Len(entries.kids) = 2
        /\ entries.kids[1].t = "map" /\ ~Projectable(entries.kids[1])
        /\ Projectable(entries.kids[2])
        /\ Len(extracted.messages) = 1
        /\ extracted.messages[1].id = GetItems(entries.kids[2].kids, K_id, None)

\* C20: for an entry whose content is a list, the projected content is the texts
\* of exactly the elements that are dicts of type "text", in order, joined by
\* single spaces, and the empty string when no element is one.
IsTextPart(item) == item.t = "map" /\ Lookup(item, K_type) = K_text
TextOf(item) == IF HasKey(item, K_text) THEN Lookup(item, K_text).s ELSE <<>>
C20_TextPartsJoined ==
  (Extracting /\ Holds(Location(checkpoint_data.value, 1))
     /\ Location(checkpoint_data.value, 1).t = "arr") =>
    LET kept == SelectSeq(Location(checkpoint_data.value, 1).kids, Projectable)
    IN \A i \in 1..Len(kept) :
         LET content == GetItems(kept[i].kids, K_content, Str(<<>>))
             parts == SelectSeq(content.kids, IsTextPart)
         IN (content.t = "arr" /\ i <= Len(extracted.messages)) =>
              /\ extracted.messages[i].content
                   = JoinWith([k \in 1..Len(parts) |-> TextOf(parts[k])], " ")
              /\ parts = <<>> => extracted.messages[i].content = <<>>

\* a content with text parts and other elements, and one with no text part
C20_Witness ==
  /\ Extracting
  /\ Len(extracted.messages) = 2
  /\ extracted.messages[1].content = <<"a", " ", "b">>
  /\ extracted.messages[2].content = <<>>
  /\ LET entries == Location(checkpoint_data.value, 1).kids
     IN /\ Len(entries) = 2
        /\ Len(SelectSeq(GetItems(entries[1].kids, K_content, None).kids, IsTextPart)) = 2
        /\ Len(GetItems(entries[1].kids, K_content, None).kids) = 4
        /\ GetItems(entries[2].kids, K_content, None).t = "arr"
        /\ GetItems(entries[2].kids, K_content, None).kids # <<>>
        /\ SelectSeq(GetItems(entries[2].kids, K_content, None).kids, IsTextPart) = <<>>

\* ------------------------------------------- properties of concurrent turns
\* What a run that is alone on its conversation finds in the checkpoint table
\* after each of its steps: the channel values it wrote last, and the checkpoints
\* that were there when it began plus its own, two for the input and one for
\* each node that has run.
AsIfAlone(request) ==
  (request.pc \notin {"idle", "touch", "invoke"}) =>
    /\ ckpt[request.cur.thread].values = request.st
    /\ ckpt[request.cur.thread].n
         = request.ckpt0[request.cur.thread].n + 2 + Len(request.ran)
OnlyOwnThread ==
  \A t \in ThreadIds :
    ckpt'[t] # ckpt[t] => (t = cur.thread /\ cur' = cur /\ pc \notin {"idle", "touch"})

\* C11: however the steps of two turns on different conversation ids interleave,
\* each conversation's checkpoints and messages are what its own turn alone would
\* have left, and a step of one turn changes nothing stored for the other id.
C11_ConversationsIsolated ==
  [](AsIfAlone(Running) /\ AsIfAlone(parked)) /\ [][OnlyOwnThread]_vars

\* both requests are past their first node, on different ids, each with its own
\* message in the store
C11_Witness ==
  /\ Len(ran) >= 2 /\ Len(parked.ran) >= 1
  /\ pc = "respond" /\ InFlight(parked)
  /\ cur.thread # parked.cur.thread
  /\ ckpt[cur.thread].n > ckpt0[cur.thread].n
  /\ ckpt[parked.cur.thread].n > parked.ckpt0[parked.cur.thread].n
  /\ ckpt[cur.thread].values.messages # ckpt[parked.cur.thread].values.messages

\* C12: chat_with_model reports a DatabaseError, the store error, only when an
\* operation on a table failed: never for a node that gave no update, which is
\* an empty query or a failed completion, embedding or search.
C12_StoreErrorOnlyForStore ==
  (pc = "idle" /\ result.kind = "DatabaseError") => ~failed

\* ------------------------------------------------- validation of thread ids
Validated(p) == touching[p].pc \notin {"idle", "validate"}
Accepted(p) == Validated(p) /\ touching[p].pc # "rejected"
IdCharacters == Letters \cup Digits \cup {"-", "_", "@"}
MadeOfIdCharacters(t) == \A i \in 1..Len(t) : t[i] \in IdCharacters

Issued == SubSeq(calls', Len(calls) + 1, Len(calls'))
IsSearch(call, campus, top_k) ==
  call.svc = "search" /\ call.campus = campus /\ call.top_k = top_k

\* C22: a retrieval that succeeds has searched, for the scope ["All"], each of
\* the fourteen campuses of the fixed list once, in the list's order, asking for 2
\* documents, and for any other scope each campus of the scope once, in the
\* scope's order, asking for 5 documents of that campus.
C22_OneSearchPerCampus ==
  [][pc = "retrive_documents" /\ pc' = "prepare_docs" =>
       LET scope == st.campus_list
       IN IF scope = <<"All">>
          THEN /\ Len(Issued) = 14
               /\ Len(ALL_CAMPUSES) = 14
               /\ \A i \in 1..14 : IsSearch(Issued[i], ALL_CAMPUSES[i], 2)
          ELSE /\ Len(Issued) = Len(scope)
               /\ \A i \in 1..Len(scope) : IsSearch(Issued[i], scope[i], 5)]_vars

\* a retrieval for the scope ["All"] has succeeded: one completion, one
\* embedding and fourteen searches were issued in the turn
C22_Witness ==
  /\ pc = "prepare_docs"
  /\ st.campus_list = <<"All">>
  /\ Len(calls) = 16
  /\ calls[3].campus = "UT_Arlington" /\ calls[16].campus = "UT_Tyler"

\* the stage that ran last was specific_school, and the text it was answered
\* with is no literal
MalformedReply ==
  /\ ran # <<>> /\ ran[Len(ran)] = "specific_school"
  /\ calls # <<>> /\ calls[Len(calls)].reply = "malformed"

\* C23: a reply to the scope classification that is no literal ends the stage as
\* a failure of the stage, and the caller of the pipeline sees no exception.
C23_MalformedReplyIsNoScope ==
  MalformedReply => failed /\ result.kind # "DatabaseError"

IsCampus(name) == \E i \in 1..Len(ALL_CAMPUSES) : ALL_CAMPUSES[i] = name
NoneTwice(s) == \A i, j \in 1..Len(s) : i # j => s[i] # s[j]
Searched ==
  LET searches == SelectSeq(calls, LAMBDA call : call.svc = "search")
  IN [i \in 1..Len(searches) |-> searches[i].campus]

\* C24: a scope set by the classification is ["All"], or a list that is not
\* empty, names no campus twice and names campuses of the fixed list only; and
\* the searches of a turn go to campuses of the fixed list, to none twice.
C24_ScopeFromTheList ==
  /\ "campus_list" \in DOMAIN st =>
       \/ st.campus_list = <<"All">>
       \/ /\ st.campus_list # <<>>
          /\ NoneTwice(st.campus_list)
          /\ \A i \in 1..Len(st.campus_list) : IsCampus(st.campus_list[i])
  /\ NoneTwice(Searched)
  /\ \A i \in 1..Len(Searched) : IsCampus(Searched[i])

\* the place of the human message no human message comes after, 0 without one
NewestHuman(messages) ==
  IF \E i \in 1..Len(messages) : messages[i].type = "human"
  THEN CHOOSE i \in 1..Len(messages) :
         /\ messages[i].type = "human"
         /\ \A j \in (i + 1)..Len(messages) : messages[j].type # "human"
  ELSE 0

\* C25: checking_query fails, setting no query, exactly when the messages hold no
\* human message or the newest human message is empty once trimmed; otherwise
\* it sets the query to the trimmed content of the newest human message.
C25_QueryIsNewestHumanMessage ==
  [][pc = "checking_query" =>
       LET k == NewestHuman(st.messages)
           text == Strip(st.messages[k].content.text)
       IN IF k = 0 \/ text = <<>>
          THEN failed' /\ pc' = "idle" /\ "query" \notin DOMAIN st'
          ELSE ~failed' /\ pc' = "specific_school" /\ st'.query = text]_vars

\* the query was taken from a human message with whitespace around its text
\* that an assistant message comes after
C25_Witness ==
  /\ pc = "specific_school"
  /\ Len(st.messages) = 2
  /\ st.messages[1].type = "human" /\ st.messages[1].content.text = <<" ", "q", "\n">>
  /\ st.messages[2].type = "ai"
  /\ st.query = <<"q">>

\* ----------------------------------------------------------- the recency list
\* request p writes an entry for a thread that the list it read does not hold
CreatesEntry(p) ==
  /\ touching[p].pc = "write" /\ touching'[p].pc = "done"
  /\ \A j \in 1..Len(touching[p].item.personal_history) :
       touching[p].item.personal_history[j].thread_id # touching[p].thread_id

\* C26: the title of an entry that a touch creates, in a list that exists or as
\* the first entry of a new one, is the first eight words of the message (all of
\* them when there are fewer) with one space between them, a word being a maximal
\* run of characters that are no whitespace.
C26_TitleIsFirstEightWords ==
  [][\A p \in Procs :
       CreatesEntry(p) =>
         LET ph == hist'[touching[p].user].personal_history
             words == SplitWords(touching[p].user_message)
         IN /\ ph[Len(ph)].thread_id = touching[p].thread_id
            /\ ph[Len(ph)].title = JoinWith(FirstN(words, 8), " ")]_vars

HasEntry(item, thread_id) ==
  \E j \in 1..Len(item.personal_history) : item.personal_history[j].thread_id = thread_id

\* C27: when two requests of one user for two different threads have both been
\* through update_personal_history, the user's list holds an entry for each of
\* the two threads, however their table reads and writes were ordered.
C27_BothEntriesKept ==
  ( /\ touching["p1"].pc = "done" /\ touching["p2"].pc = "done"
    /\ touching["p1"].user = touching["p2"].user
    /\ touching["p1"].thread_id # touching["p2"].thread_id )
  => /\ HasEntry(hist[touching["p1"].user], touching["p1"].thread_id)
     /\ HasEntry(hist[touching["p1"].user], touching["p2"].thread_id)

\* ----------------------------------------------------------- history reads
\* C28: a history read gives messages of a thread only to the user whose turn
\* was the first on the thread.
C28_OnlyTheFirstUserReads ==
  (shown.kind = "messages" /\ shown.messages # <<>>) => shown.user = owner[shown.thread_id]

\* C29: a user who got an answer on a thread is never refused the history of
\* that thread.
C29_AccessIsKept ==
  shown.kind = "NoAccessToThread" => <<shown.user, shown.thread_id>> \notin completed

\* C30: with one touch at a time, from no list or from a list without
\* repetitions, no list ever holds two entries for one thread.
C30_OneEntryPerThread ==
  \A u \in Users :
    \A i, j \in 1..Len(hist[u].personal_history) :
      i # j => hist[u].personal_history[i].thread_id # hist[u].personal_history[j].thread_id

\* a user without a list has touched the same thread in two turns, and the list
\* holds the one entry
C30_Witness ==
  /\ turns = 2
  /\ touched = "moved"
  /\ ~hist0[cur.user].present \/ Len(hist0[cur.user].personal_history) = 1
  /\ Len(hist[cur.user].personal_history) = 1
  /\ hist[cur.user].personal_history[1].thread_id = cur.thread

====
